---- MODULE Spec2Model ----
(***************************************************************************)
(* Stock reservation engine of the shop bot                                *)
(* (bot/database/methods/inventory.py).                                    *)
(*                                                                         *)
(* The committed database is (goods, orders, settings).  Every operation   *)
(* of the engine is an operator over a session state [goods, orders, log]: *)
(* it is given the state that session.rollback() restores (base) and the   *)
(* session's current state (s), and returns its (ok, msg) result together  *)
(* with the session state it leaves behind.  log holds the InventoryLog    *)
(* rows the session has added and not yet committed.  The actions call the *)
(* operations with session=None: the operation opens its own session,      *)
(* commits on success and closes the session without a commit otherwise.   *)
(* Every operation takes its order and goods rows with SELECT ... FOR      *)
(* UPDATE and keeps them to the end of the transaction, so one call is one *)
(* atomic step.  Time is counted in hours.                                 *)
(*                                                                         *)
(* last is the record of the most recent call: its arguments, its result,  *)
(* the committed goods and orders it started from and the InventoryLog     *)
(* rows it committed; last.follows names the successful call on the same   *)
(* order made by the step just before a release.  A step that is not a     *)
(* call of the engine resets last.                                         *)
(*                                                                         *)
(* Beside the engine stand the payment address pool (bot/payments/         *)
(* bitcoin.py: pool is the BitcoinAddress table in insertion order,        *)
(* btc_file the lines of btc_addresses.txt, held the address a checkout    *)
(* has read and not yet marked, plast the latest pool call), the order     *)
(* codes (bot/utils/order_codes.py: codes are the codes of the orders, gen *)
(* the call in flight, one candidate a step), a session held open by a     *)
(* caller (sess: the rows it has written and not committed), the bonus     *)
(* balances of the buyers, the sweeper and the commands of bot_cli.py.     *)
(* Each part has its own specification over the same variables.  Every     *)
(* buyer has a CustomerInfo row.  A sweeper cycle and a command are one    *)
(* step each; the deliver flow is two, so that it can end without its      *)
(* commit.                                                                 *)
(*                                                                         *)
(* Where the interleaving matters the same code is stepped more finely:    *)
(* cleaner is the reservation cleaner task (bot/tasks/                     *)
(* reservation_cleaner.py) with its cycle taken order by order, so that    *)
(* other transactions commit between its query and its commit and an       *)
(* exception can leave it half-way; txs are the transactions of two        *)
(* workers on the stock, taken row lock by row lock.  A transaction that   *)
(* needs a row another one has locked waits.                               *)
(*                                                                         *)
(* watcher is the handler of the file watcher (bot/tasks/file_watcher.py): *)
(* its clock in seconds, the time of its last reload, the event waiting to *)
(* be handled and the event handled last.  The fault actions are calls in  *)
(* which a query raises at the lock of a line after the first.             *)
(***************************************************************************)
EXTENDS Integers, Sequences, FiniteSets, TLC

\* ------------------------------------------------------------------ bounds
MaxStock == 2
MaxQty == 1
MaxNow == 2

\* the operator's lines in btc_addresses.txt
MaxFileLen == 1

\* the bonus a buyer may hold
MaxBonus == 1

\* the seconds the watcher's clock runs, and the lines written while it
\* watches
MaxTime == 5
MaxWrites == 2

\* --------------------------------------------------------- program values
DefaultTimeoutHours == 24
MinTimeoutHours == 1
MaxTimeoutHours == 168
BitcoinTimeoutHours == 168

ItemNames == {"A", "B"}
OrderIds == {1, 2}
PaymentMethods == {"cash", "bitcoin"}

None == <<>>
Some(v) == <<v>>

Quantities == 1..MaxQty
Lines == [item_name : ItemNames, quantity : Quantities]

\* a cart holds one row per item: the lines of a new order name distinct items
CartLists ==
    {<<l>> : l \in Lines} \cup
    {il \in {<<l1, l2>> : l1 \in Lines, l2 \in Lines} : il[1].item_name # il[2].item_name}

\* requests of one line
SingleLines == {<<l>> : l \in Lines}

TimeoutInputs == {MinTimeoutHours - 1, MinTimeoutHours, MaxTimeoutHours, MaxTimeoutHours + 1}

\* the payment addresses an operator may supply
Addresses == {"bc1qa", "bc1qb"}

\* the lines of btc_addresses.txt that are not addresses: a comment, a blank
CommentLines == {"# spare"}

Blank == ""

FileLines == Addresses \cup CommentLines \cup {Blank}

\* the lists handed to the bulk import, repeats included
AddressLists ==
    {<<>>} \cup {<<a>> : a \in Addresses} \cup {<<a, b>> : a \in Addresses, b \in Addresses}

BonusAmounts == 0..MaxBonus

\* order codes: six letters; the draws of the model are over two of the
\* uppercase letters, the first two places free and the others as the first
CodeLength == 6

max_attempts == 100

Uppercase ==
    {"A", "B", "C", "D", "E", "F", "G", "H", "I", "J", "K", "L", "M",
     "N", "O", "P", "Q", "R", "S", "T", "U", "V", "W", "X", "Y", "Z"}

Letters == {"A", "B"}

Draws == {d \in [1..CodeLength -> Letters] : \A k \in 3..CodeLength : d[k] = d[1]}

\* the buyers; a checkout in flight is known by its buyer
Buyers == {1, 2}

VARIABLES goods, orders, settings, now, last

\* the address pool: the BitcoinAddress rows, the lines of btc_addresses.txt,
\* the address each checkout in flight has read, and the latest pool call
VARIABLES pool, btc_file, held, plast

\* the order codes: the order_code column of the Order rows, and the call of
\* generate_unique_order_code in flight
VARIABLES codes, gen

\* the session a caller holds open over the stock ledger, and the bonus
\* balances of the buyers (CustomerInfo.bonus_balance)
VARIABLES sess, bonus_balance

\* the reservation cleaner task: where its loop stands and the cycle in flight
VARIABLES cleaner

\* the transactions of the workers that are open on the stock: the rows each
\* has locked and changed, not yet committed
VARIABLES txs

\* the watcher of btc_addresses.txt: its clock in seconds, the time of its
\* last reload, the event waiting for its handler and the last one handled
VARIABLES watcher

stockVars == <<goods, orders, settings, now, last>>

sessVars == <<sess>>

custVars == <<bonus_balance>>
cleanVars == <<cleaner>>
lockVars == <<txs>>
watchVars == <<watcher>>

codeVars == <<codes, gen>>

poolVars == <<pool, btc_file, held, plast>>

\* what a step of the stock ledger, of the pool, of the codes leaves alone
asideVars == <<poolVars, codeVars, sessVars, custVars, cleanVars, lockVars, watchVars>>

asidePool == <<stockVars, codeVars, sessVars, custVars, cleanVars, lockVars, watchVars>>

asideCodes == <<stockVars, poolVars, sessVars, custVars, cleanVars, lockVars, watchVars>>

vars == <<stockVars, poolVars, codeVars, sessVars, custVars, cleanVars, lockVars, watchVars>>

\* --------------------------------------------------------------- the rows
Goods(stock, reserved) == [stock_quantity |-> stock, reserved_quantity |-> reserved]

\* an Order row with its OrderItem rows, as the checkout handlers write it
NewOrder(buyer_id, payment_method, items, bonus_applied, bitcoin_address) ==
    [order_status |-> "pending", reserved_until |-> None,
     payment_method |-> payment_method, items |-> items,
     buyer_id |-> buyer_id, bonus_applied |-> bonus_applied,
     bitcoin_address |-> bitcoin_address]

Order(payment_method, items) ==
    NewOrder(CHOOSE b \in Buyers : TRUE, payment_method, items, 0, None)

InventoryLog(item_name, change_type, quantity_change, order_id) ==
    [item_name |-> item_name, change_type |-> change_type,
     quantity_change |-> quantity_change, order_id |-> order_id]

\* mutant: the change is made and no row is written
log_inventory_change_none(s, item_name, change_type, quantity_change, order_id) == s

\* session.add(log_entry) in the caller's session
log_inventory_change(s, item_name, change_type, quantity_change, order_id) ==
    [s EXCEPT !.log = Append(@, InventoryLog(item_name, change_type, quantity_change, order_id))]

\* session.rollback(): the session falls back to the committed state
rollback(base, s) == base

Result(ok, msg, item_name, s) == [ok |-> ok, msg |-> msg, item_name |-> item_name, s |-> s]

\* get_bot_setting('cash_order_timeout_hours', default=24, value_type=int)
get_bot_setting(setting, default) == IF setting # None THEN setting[1] ELSE default

\* ------------------------------------------------------ reserve_inventory
\* mutants: the reserved quantity is left out of the check; the check is off by one
available_quantity_stock_only(g) == g.stock_quantity

available_quantity_off_by_one(g) == g.stock_quantity - g.reserved_quantity + 1

available_quantity(g) == g.stock_quantity - g.reserved_quantity

\* mutant: the hold grows by twice the quantity
reserve_goods_twice(g, quantity) == [g EXCEPT !.reserved_quantity = @ + 2 * quantity]

\* mutant: the hold is assigned instead of added
reserve_goods_assign(g, quantity) == [g EXCEPT !.reserved_quantity = quantity]

reserve_goods(g, quantity) == [g EXCEPT !.reserved_quantity = @ + quantity]

reservation_deadline(t, payment_method, timeout_hours) == t + timeout_hours

RECURSIVE reserve_items(_, _, _, _, _)
reserve_items(base, s, order_id, items, i) ==
    IF i > Len(items) THEN Result(TRUE, "ok", "", s)
    ELSE LET item_name == items[i].item_name
             quantity == items[i].quantity
         IN  IF item_name \notin DOMAIN s.goods
             THEN Result(FALSE, "Item not found", item_name, rollback(base, s))
             ELSE IF available_quantity(s.goods[item_name]) < quantity
             THEN Result(FALSE, "Insufficient stock", item_name, rollback(base, s))
             ELSE reserve_items(base,
                      log_inventory_change(
                          [s EXCEPT !.goods[item_name] = reserve_goods(@, quantity)],
                          item_name, "reserve", quantity, order_id),
                      order_id, items, i + 1)

reserve_inventory(base, s, order_id, items, payment_method, setting, t) ==
    IF order_id \notin DOMAIN s.orders THEN Result(FALSE, "Order not found", "", s)
    ELSE LET pm == IF payment_method = "None" THEN s.orders[order_id].payment_method
                   ELSE payment_method
             r == reserve_items(base, s, order_id, items, 1)
             timeout_hours == get_bot_setting(setting, DefaultTimeoutHours)
         IN  IF ~r.ok THEN r
             ELSE Result(TRUE, "Inventory reserved successfully", "",
                      [r.s EXCEPT !.orders[order_id].reserved_until =
                                       Some(reservation_deadline(t, pm, timeout_hours)),
                                  !.orders[order_id].order_status = "reserved"])

\* ---------------------------------------------------- release_reservation
\* mutants: no floor at zero; the whole hold of the item is dropped
release_goods_no_floor(g, quantity) == [g EXCEPT !.reserved_quantity = @ - quantity]

release_goods_all(g, quantity) == [g EXCEPT !.reserved_quantity = 0]

release_goods(g, quantity) ==
    LET r == g.reserved_quantity - quantity
    IN  [g EXCEPT !.reserved_quantity = IF r < 0 THEN 0 ELSE r]

RECURSIVE release_items(_, _, _, _)
release_items(s, order_id, items, i) ==
    IF i > Len(items) THEN s
    ELSE LET item_name == items[i].item_name
             quantity == items[i].quantity
         IN  IF item_name \in DOMAIN s.goods
             THEN release_items(
                      log_inventory_change(
                          [s EXCEPT !.goods[item_name] = release_goods(@, quantity)],
                          item_name, "release", -quantity, order_id),
                      order_id, items, i + 1)
             ELSE release_items(s, order_id, items, i + 1)

release_reservation(base, s, order_id) ==
    IF order_id \notin DOMAIN s.orders THEN Result(FALSE, "Order not found", "", s)
    ELSE Result(TRUE, "Reservation released successfully", "",
             [release_items(s, order_id, s.orders[order_id].items, 1)
                  EXCEPT !.orders[order_id].reserved_until = None])

\* ------------------------------------------------------- deduct_inventory
\* mutants: no floor on the hold; the hold is kept; the stock is floored too
deduct_goods_no_floor(g, quantity) ==
    [stock_quantity |-> g.stock_quantity - quantity,
     reserved_quantity |-> g.reserved_quantity - quantity]

deduct_goods_keep_reserved(g, quantity) == [g EXCEPT !.stock_quantity = @ - quantity]

deduct_goods_floor_stock(g, quantity) ==
    [stock_quantity |-> IF g.stock_quantity < quantity THEN 0 ELSE g.stock_quantity - quantity,
     reserved_quantity |-> IF g.reserved_quantity < quantity THEN 0
                           ELSE g.reserved_quantity - quantity]

deduct_goods(g, quantity) ==
    LET r == g.reserved_quantity - quantity
    IN  [stock_quantity |-> g.stock_quantity - quantity,
         reserved_quantity |-> IF r < 0 THEN 0 ELSE r]

RECURSIVE deduct_items(_, _, _, _, _)
deduct_items(base, s, order_id, items, i) ==
    IF i > Len(items) THEN Result(TRUE, "ok", "", s)
    ELSE LET item_name == items[i].item_name
             quantity == items[i].quantity
         IN  IF item_name \notin DOMAIN s.goods
             THEN Result(FALSE, "Item not found", item_name, rollback(base, s))
             ELSE IF deduct_goods(s.goods[item_name], quantity).stock_quantity < 0
             THEN Result(FALSE, "Stock would go negative", item_name, rollback(base, s))
             ELSE deduct_items(base,
                      log_inventory_change(
                          [s EXCEPT !.goods[item_name] = deduct_goods(@, quantity)],
                          item_name, "deduct", -quantity, order_id),
                      order_id, items, i + 1)

deduct_inventory(base, s, order_id) ==
    IF order_id \notin DOMAIN s.orders THEN Result(FALSE, "Order not found", "", s)
    ELSE LET r == deduct_items(base, s, order_id, s.orders[order_id].items, 1)
         IN  IF ~r.ok THEN r
             ELSE Result(TRUE, "Inventory deducted successfully", "",
                      [r.s EXCEPT !.orders[order_id].reserved_until = None])

\* ---------------------------------------------------------- add_inventory
\* mutant: the stock is set to the quantity
add_goods_set(g, quantity) == [g EXCEPT !.stock_quantity = quantity]

add_goods(g, quantity) == [g EXCEPT !.stock_quantity = @ + quantity]

\* mutant: a restock of a missing item creates the item
add_inventory_upsert(base, s, item_name, quantity) ==
    IF item_name \notin DOMAIN s.goods
    THEN Result(TRUE, "Added", item_name,
             [s EXCEPT !.goods = [n \in DOMAIN s.goods \cup {item_name} |->
                                     IF n = item_name THEN Goods(quantity, 0)
                                     ELSE s.goods[n]]])
    ELSE Result(TRUE, "Added", item_name,
             [s EXCEPT !.goods[item_name] = add_goods(@, quantity)])

add_inventory(base, s, item_name, quantity) ==
    IF item_name \notin DOMAIN s.goods THEN Result(FALSE, "Item not found", item_name, s)
    ELSE Result(TRUE, "Added", item_name,
             log_inventory_change(
                 [s EXCEPT !.goods[item_name] = add_goods(@, quantity)],
                 item_name, "add", quantity, 0))

\* ----------------------------------------------------------- the sweeper
\* the orders the cycle selects: reserved, with a deadline before now
expired_orders(ords, t) ==
    {o \in DOMAIN ords :
        /\ ords[o].order_status = "reserved"
        /\ ords[o].reserved_until # None
        /\ ords[o].reserved_until[1] < t}

\* mutant: the bonus of an expired order is not given back
refund_bonus_none(balance, order) == balance

\* the bonus applied to the order goes back to its buyer
refund_bonus(balance, order) ==
    IF order.bonus_applied > 0 /\ order.buyer_id \in DOMAIN balance
    THEN [balance EXCEPT ![order.buyer_id] = @ + order.bonus_applied]
    ELSE balance

\* the body of the loop for one selected order, in the session of the cycle
cleanup_order(base, st, order_id) ==
    LET r == release_reservation(base, st.s, order_id)
    IN  IF r.ok
        THEN [s |-> [r.s EXCEPT !.orders[order_id].order_status = "expired"],
              balance |-> refund_bonus(st.balance, st.s.orders[order_id]),
              count |-> st.count + 1]
        ELSE [st EXCEPT !.s = r.s]

RECURSIVE cleanup_orders(_, _, _)
cleanup_orders(base, st, selected) ==
    IF selected = {} THEN st
    ELSE LET order_id == CHOOSE o \in selected : \A x \in selected : o <= x
         IN  cleanup_orders(base, cleanup_order(base, st, order_id), selected \ {order_id})

cleanup_expired_reservations(base, balance, t) ==
    cleanup_orders(base, [s |-> base, balance |-> balance, count |-> 0],
                   expired_orders(base.orders, t))

\* ------------------------------------------------------- the address pool
\* a BitcoinAddress row as the import writes it
BitcoinAddress(address) ==
    [address |-> address, is_used |-> FALSE, used_by |-> None, used_at |-> None,
     order_id |-> None]

PoolResult(ok, count, p, file) == [ok |-> ok, count |-> count, pool |-> p, file |-> file]

is_address_line(line) == ~(line = Blank \/ line \in CommentLines)

\* query(BitcoinAddress).filter_by(address=address).first(): the place of the
\* row, 0 when there is none
first_by_address(p, address) ==
    IF \E i \in DOMAIN p : p[i].address = address
    THEN CHOOSE i \in DOMAIN p :
             /\ p[i].address = address
             /\ \A j \in DOMAIN p : p[j].address = address => i <= j
    ELSE 0

\* mutant: the address is written without a look at the rows
insert_new_again(p, address) == Append(p, BitcoinAddress(address))

\* session.add of the address when no row has it
insert_new(p, address) ==
    IF first_by_address(p, address) # 0 THEN p ELSE Append(p, BitcoinAddress(address))

\* mutant: every listed address is counted
count_new_all(p, address) == 1

count_new(p, address) == IF first_by_address(p, address) # 0 THEN 0 ELSE 1

\* the loop over the listed addresses: the rows and the number added
RECURSIVE insert_addresses(_, _, _, _)
insert_addresses(p, addresses, i, added_count) ==
    IF i > Len(addresses) THEN [pool |-> p, count |-> added_count]
    ELSE insert_addresses(insert_new(p, addresses[i]), addresses, i + 1,
                          added_count + count_new(p, addresses[i]))

load_bitcoin_addresses_from_file(p, file) ==
    LET addresses == SelectSeq(file, is_address_line)
        r == insert_addresses(p, addresses, 1, 0)
    IN  PoolResult(TRUE, r.count, r.pool, file)

\* mutant: any row may be handed out
get_available_bitcoin_address_any(p) ==
    IF p = <<>> THEN {None} ELSE {Some(p[i].address) : i \in DOMAIN p}

\* the rows the query for the first unused row may return; none when no row
\* is unused
get_available_bitcoin_address(p) ==
    IF \A i \in DOMAIN p : p[i].is_used THEN {None}
    ELSE {Some(p[i].address) : i \in {j \in DOMAIN p : ~p[j].is_used}}

remove_bitcoin_address_from_file(file, address) ==
    LET keep(line) == line = Blank \/ line \in CommentLines \/ line # address
    IN  SelectSeq(file, keep)

mark_bitcoin_address_used(p, file, address, user_id, order_id, t) ==
    LET i == first_by_address(p, address)
    IN  IF i = 0 THEN PoolResult(FALSE, 0, p, file)
        ELSE PoolResult(TRUE, 0,
                 [p EXCEPT ![i] = [@ EXCEPT !.is_used = TRUE, !.used_by = Some(user_id),
                                            !.used_at = Some(t),
                                            !.order_id = Some(order_id)]],
                 remove_bitcoin_address_from_file(file, address))

add_bitcoin_address(p, file, address) ==
    IF first_by_address(p, address) # 0 THEN PoolResult(FALSE, 0, p, file)
    ELSE PoolResult(TRUE, 1, Append(p, BitcoinAddress(address)), Append(file, address))

add_bitcoin_addresses_bulk(p, file, addresses) ==
    LET r == insert_addresses(p, addresses, 1, 0)
    IN  PoolResult(TRUE, r.count, r.pool,
                   IF r.count > 0 THEN file \o addresses ELSE file)

\* -------------------------------------------------------- the order codes
\* ''.join(secrets.choice(characters) for _ in range(6)), on the draws made
generate_order_code(draws) == [k \in 1..CodeLength |-> draws[k]]

GenState(pc, attempts, code, candidates) ==
    [pc |-> pc, attempts |-> attempts, code |-> code, candidates |-> candidates]

\* mutant: the candidate is returned without a look at the orders
unique_code_step_unchecked(existing, g, code) ==
    GenState("returned", g.attempts, Some(code), g.candidates + 1)

\* one turn of the loop of generate_unique_order_code on a candidate
unique_code_step(existing, g, code) ==
    IF code \notin existing
    THEN GenState("returned", g.attempts, Some(code), g.candidates + 1)
    ELSE GenState("loop", g.attempts + 1, None, g.candidates + 1)

\* ------------------------------------------------------------- the system
\* the watcher's minimum of seconds between two reloads
debounce_seconds == 2

\* the path the watcher was made for, another file of the directory, and
\* the directory
FilePath == "btc_addresses.txt"
EventPaths == {FilePath, "other.txt", "."}

\* a file system event, and the record of the one handled last: when it was
\* handled, the time of the last reload before it, whether it reloaded
FileSystemEvent(src_path, is_directory) ==
    [src_path |-> src_path, is_directory |-> is_directory]

NoEvent ==
    [src_path |-> "", is_directory |-> FALSE, at |-> 0, last_reload_time |-> 0,
     reloaded |-> FALSE]

\* the workers whose transactions run side by side
Workers == {1, 2}

\* a worker with no transaction open; an open one has pc "items" while its
\* loop over the lines runs and "done" after its commit or rollback; locks
\* are the Goods rows it holds FOR UPDATE, rows what it read and changed
TxIdle ==
    [pc |-> "idle", op |-> "none", order_id |-> 0, items |-> <<>>, i |-> 1,
     locks |-> {}, rows |-> <<>>, ok |-> FALSE]

\* the seconds the cleaner task sleeps after a cycle that returned and after
\* one that raised
NormalWait == 60
ErrorWait == 120

\* the cleaner task: pc "cycle" before the call of the cycle, "orders" inside
\* its loop, "sleep" after it; wait are the seconds of its last sleep,
\* raised the order at which its last cycle raised; selected are the orders
\* the query returned and not yet handled, processed the ones handled, st
\* the uncommitted session of the cycle once it holds row locks
CleanerState(pc, wait) ==
    [pc |-> pc, wait |-> wait, raised |-> 0, selected |-> <<>>, processed |-> <<>>,
     st |-> None]

Session == [goods |-> goods, orders |-> orders, log |-> <<>>]

NoCall ==
    [op |-> "none", order_id |-> 0, items |-> <<>>, item_name |-> "", quantity |-> 0,
     payment_method |-> "None", ok |-> FALSE, msg |-> "", failed_item |-> "",
     pre_goods |-> <<>>, pre_orders |-> <<>>, logged |-> <<>>, follows |-> "none"]

\* the call of the step before, when it succeeded on the whole of this order
Follows(op, order_id) ==
    IF /\ op = "release"
       /\ last.ok
       /\ last.order_id = order_id
       /\ last.op = "reserve" => last.items = orders[order_id].items
    THEN last.op ELSE "none"

Call(op, order_id, items, item_name, quantity, payment_method, r) ==
    [op |-> op, order_id |-> order_id, items |-> items, item_name |-> item_name,
     quantity |-> quantity, payment_method |-> payment_method,
     ok |-> r.ok, msg |-> r.msg, failed_item |-> IF r.ok THEN "" ELSE r.item_name,
     pre_goods |-> goods, pre_orders |-> orders, logged |-> r.s.log,
     follows |-> Follows(op, order_id)]

NoPoolCall ==
    [op |-> "none", address |-> "", addresses |-> <<>>, user_id |-> 0, order_id |-> 0,
     ok |-> FALSE, count |-> 0, returned |-> None, pre_pool |-> <<>>, pre_file |-> <<>>]

PoolCall(op, address, addresses, user_id, order_id, ok, count, returned) ==
    [op |-> op, address |-> address, addresses |-> addresses, user_id |-> user_id,
     order_id |-> order_id, ok |-> ok, count |-> count, returned |-> returned,
     pre_pool |-> pool, pre_file |-> btc_file]

Init ==
    /\ goods = [n \in ItemNames |-> Goods(0, 0)]
    /\ orders = <<>>
    /\ settings = None
    /\ now = 0
    /\ last = NoCall
    /\ pool = <<>>
    /\ btc_file = <<>>
    /\ held = [b \in Buyers |-> None]
    /\ plast = NoPoolCall
    /\ codes = {}
    /\ gen = GenState("idle", 0, None, 0)
    /\ sess = None
    /\ bonus_balance = [b \in Buyers |-> 0]
    /\ cleaner = CleanerState("cycle", 0)
    /\ watcher = [time |-> debounce_seconds, last_reload_time |-> 0, pending |-> None,
                  event |-> NoEvent]
    /\ txs = [base |-> [n \in ItemNames |-> Goods(0, 0)], tx |-> [w \in Workers |-> TxIdle]]

\* a call with session=None: commit on success, otherwise the session is
\* closed and what it held is lost
Commit(r) ==
    /\ goods' = IF r.ok THEN r.s.goods ELSE goods
    /\ orders' = IF r.ok THEN r.s.orders ELSE orders

Reserve(order_id, items, payment_method) ==
    LET r == reserve_inventory(Session, Session, order_id, items, payment_method, settings, now)
    IN  /\ Commit(r)
        /\ last' = Call("reserve", order_id, items, "", 0, payment_method, r)
        /\ UNCHANGED <<settings, now, asideVars>>

Release(order_id) ==
    LET r == release_reservation(Session, Session, order_id)
    IN  /\ Commit(r)
        /\ last' = Call("release", order_id, <<>>, "", 0, "None", r)
        /\ UNCHANGED <<settings, now, asideVars>>

Deduct(order_id) ==
    LET r == deduct_inventory(Session, Session, order_id)
    IN  /\ Commit(r)
        /\ last' = Call("deduct", order_id, <<>>, "", 0, "None", r)
        /\ UNCHANGED <<settings, now, asideVars>>

Restock(item_name, quantity) ==
    LET r == add_inventory(Session, Session, item_name, quantity)
    IN  /\ r.ok => r.s.goods[item_name].stock_quantity <= MaxStock
        /\ Commit(r)
        /\ last' = Call("restock", 0, <<>>, item_name, quantity, "None", r)
        /\ UNCHANGED <<settings, now, asideVars>>

DeleteItem(item_name) ==
    /\ item_name \in DOMAIN goods
    /\ goods' = [n \in DOMAIN goods \ {item_name} |-> goods[n]]
    /\ last' = NoCall
    /\ UNCHANGED <<orders, settings, now, asideVars>>

\* checkout writes the Order row and its OrderItem rows
CreateOrder(payment_method, items) ==
    LET order_id == Cardinality(DOMAIN orders) + 1
    IN  /\ order_id \in OrderIds
        /\ orders' = Append(orders, Order(payment_method, items))
        /\ last' = NoCall
        /\ UNCHANGED <<goods, settings, now, asideVars>>

SetOrderTimeout(timeout_hours) ==
    /\ ~(timeout_hours < MinTimeoutHours \/ timeout_hours > MaxTimeoutHours)
    /\ settings' = Some(timeout_hours)
    /\ last' = NoCall
    /\ UNCHANGED <<goods, orders, now, asideVars>>

Tick ==
    /\ now < MaxNow
    /\ now' = now + 1
    /\ last' = NoCall
    /\ UNCHANGED <<goods, orders, settings, asideVars>>

\* ---- the address pool at work
\* the watcher, or start-up, imports the file
LoadFromFile ==
    LET r == load_bitcoin_addresses_from_file(pool, btc_file)
    IN  /\ pool' = r.pool
        /\ btc_file' = r.file
        /\ plast' = PoolCall("load", "", SelectSeq(btc_file, is_address_line), 0, 0,
                             r.ok, r.count, None)
        /\ UNCHANGED <<held, asidePool>>

\* a bitcoin checkout reads an address; without one it ends there
BitcoinCheckoutStart(b) ==
    /\ held[b] = None
    /\ \E a \in get_available_bitcoin_address(pool) :
           /\ held' = [held EXCEPT ![b] = a]
           /\ plast' = PoolCall("allocate", "", <<>>, b, 0, a # None, 0, a)
    /\ UNCHANGED <<pool, btc_file, asidePool>>

\* a call of its own: a read of the pool
Allocate ==
    /\ \E a \in get_available_bitcoin_address(pool) :
           plast' = PoolCall("allocate", "", <<>>, 0, 0, a # None, 0, a)
    /\ UNCHANGED <<pool, btc_file, held, asidePool>>

\* a call of its own: session=None, committed inside
MarkUsed(address, user_id, order_id) ==
    LET r == mark_bitcoin_address_used(pool, btc_file, address, user_id, order_id, now)
    IN  /\ pool' = r.pool
        /\ btc_file' = r.file
        /\ plast' = PoolCall("mark", address, <<>>, user_id, order_id, r.ok, 0, None)
        /\ UNCHANGED <<held, asidePool>>

AddAddress(address) ==
    LET r == add_bitcoin_address(pool, btc_file, address)
    IN  /\ pool' = r.pool
        /\ btc_file' = r.file
        /\ plast' = PoolCall("add", address, <<>>, 0, 0, r.ok, r.count, None)
        /\ UNCHANGED <<held, asidePool>>

AddAddressesBulk(addresses) ==
    LET r == add_bitcoin_addresses_bulk(pool, btc_file, addresses)
    IN  /\ pool' = r.pool
        /\ btc_file' = r.file
        /\ plast' = PoolCall("bulk", "", addresses, 0, 0, r.ok, r.count, None)
        /\ UNCHANGED <<held, asidePool>>

\* the operator appends a line to btc_addresses.txt
OperatorAppend(line) ==
    /\ Len(btc_file) < MaxFileLen
    /\ btc_file' = Append(btc_file, line)
    /\ plast' = NoPoolCall
    /\ UNCHANGED <<pool, held, asidePool>>

\* the rest of the bitcoin checkout, in one session: the order, its hold,
\* the address marked used, one commit; a failed hold rolls all of it back
BitcoinCheckoutFinish(b, items) ==
    LET address == held[b][1]
        order_id == Cardinality(DOMAIN orders) + 1
        s == [Session EXCEPT
                 !.orders = Append(orders, NewOrder(b, "bitcoin", items, 0, held[b]))]
        r == reserve_inventory(Session, s, order_id, items, "bitcoin", settings, now)
        m == mark_bitcoin_address_used(pool, btc_file, address, b, order_id, now)
    IN  /\ held[b] # None
        /\ order_id \in OrderIds
        /\ Commit(r)
        /\ pool' = IF r.ok THEN m.pool ELSE pool
        /\ btc_file' = IF r.ok THEN m.file ELSE btc_file
        /\ held' = [held EXCEPT ![b] = None]
        /\ last' = Call("reserve", order_id, items, "", 0, "bitcoin", r)
        /\ plast' = IF r.ok THEN PoolCall("mark", address, <<>>, b, order_id, m.ok, 0, None)
                    ELSE NoPoolCall
        /\ UNCHANGED <<settings, now, codeVars, sessVars, custVars, cleanVars, lockVars, watchVars>>

\* ---- the order codes at work
\* a checkout calls generate_unique_order_code
GenerateStart ==
    /\ gen.pc # "loop"
    /\ gen' = GenState("loop", 0, None, 0)
    /\ UNCHANGED <<codes, asideCodes>>

GenerateStep(draws) ==
    /\ gen.pc = "loop"
    /\ gen.attempts < max_attempts
    /\ gen' = unique_code_step(codes, gen, generate_order_code(draws))
    /\ UNCHANGED <<codes, asideCodes>>

\* the loop is left with every candidate taken: RuntimeError
GenerateRaise ==
    /\ gen.pc = "loop"
    /\ ~(gen.attempts < max_attempts)
    /\ gen' = [gen EXCEPT !.pc = "raised"]
    /\ UNCHANGED <<codes, asideCodes>>

\* the checkout writes the code it was given into its order and commits
StoreCode ==
    /\ gen.pc = "returned"
    /\ Cardinality(codes) < Cardinality(OrderIds)
    /\ codes' = codes \cup {gen.code[1]}
    /\ gen' = GenState("idle", 0, None, 0)
    /\ UNCHANGED asideCodes

\* ---- calls in a session of the caller
\* mutant: a call commits whoever owns the session
should_commit_always(session) == TRUE

\* should_commit = session is None
should_commit(session) == session = None

OpenSession(flow, order_id, s) == Some([s |-> s, flow |-> flow, order_id |-> order_id])

\* what ends a session, for the record of the latest step
SessionEnd(op) ==
    [NoCall EXCEPT !.op = op, !.order_id = sess[1].order_id, !.msg = sess[1].flow,
                   !.pre_goods = goods, !.pre_orders = orders]

SessionBegin ==
    /\ sess = None
    /\ sess' = OpenSession("caller", 0, Session)
    /\ last' = NoCall
    /\ UNCHANGED <<goods, orders, settings, now, poolVars, codeVars, custVars, cleanVars, lockVars, watchVars>>

\* the call has run on the rows of the session; it commits them only when
\* the session is its own; the log rows it wrote are on record in last
InSession(r) ==
    /\ sess' = Some([sess[1] EXCEPT !.s = [r.s EXCEPT !.log = <<>>]])
    /\ goods' = IF should_commit(sess) /\ r.ok THEN r.s.goods ELSE goods
    /\ orders' = IF should_commit(sess) /\ r.ok THEN r.s.orders ELSE orders
    /\ UNCHANGED <<settings, now, poolVars, codeVars, custVars, cleanVars, lockVars, watchVars>>

SessionReserve(order_id, items) ==
    /\ sess # None /\ sess[1].flow = "caller"
    /\ LET r == reserve_inventory(Session, sess[1].s, order_id, items, "None", settings, now)
       IN  InSession(r) /\ last' = Call("reserve", order_id, items, "", 0, "None", r)

SessionRelease(order_id) ==
    /\ sess # None /\ sess[1].flow = "caller"
    /\ LET r == release_reservation(Session, sess[1].s, order_id)
       IN  InSession(r) /\ last' = Call("release", order_id, <<>>, "", 0, "None", r)

SessionDeduct(order_id) ==
    /\ sess # None /\ sess[1].flow = "caller"
    /\ LET r == deduct_inventory(Session, sess[1].s, order_id)
       IN  InSession(r) /\ last' = Call("deduct", order_id, <<>>, "", 0, "None", r)

SessionRestock(item_name, quantity) ==
    /\ sess # None /\ sess[1].flow = "caller"
    /\ LET r == add_inventory(Session, sess[1].s, item_name, quantity)
       IN  /\ r.ok => r.s.goods[item_name].stock_quantity <= MaxStock
           /\ InSession(r)
           /\ last' = Call("restock", 0, <<>>, item_name, quantity, "None", r)

\* mark_order_delivered up to its commit: the deduction and the new status
\* are written in the session of the flow; a refused order or a failed
\* deduction ends the flow with the session closed
DeliverBegin(order_id) ==
    /\ sess = None
    /\ order_id \in DOMAIN orders
    /\ orders[order_id].order_status \notin {"delivered", "cancelled", "canceled", "expired"}
    /\ LET r == deduct_inventory(Session, Session, order_id)
           opened == OpenSession("deliver", order_id,
                                 [r.s EXCEPT !.orders[order_id].order_status = "delivered",
                                             !.log = <<>>])
       IN  /\ sess' = IF r.ok THEN opened ELSE None
           /\ goods' = IF should_commit(opened) /\ r.ok THEN r.s.goods ELSE goods
           /\ orders' = IF should_commit(opened) /\ r.ok THEN r.s.orders ELSE orders
           /\ last' = Call("deduct", order_id, <<>>, "", 0, "None", r)
    /\ UNCHANGED <<settings, now, poolVars, codeVars, custVars, cleanVars, lockVars, watchVars>>

\* session.commit() of the caller
SessionCommit ==
    /\ sess # None
    /\ goods' = sess[1].s.goods
    /\ orders' = sess[1].s.orders
    /\ sess' = None
    /\ last' = SessionEnd("commit")
    /\ UNCHANGED <<settings, now, poolVars, codeVars, custVars, cleanVars, lockVars, watchVars>>

\* session.rollback() of the caller, or the session closed without commit
SessionRollback ==
    /\ sess # None
    /\ sess' = None
    /\ last' = SessionEnd("rollback")
    /\ UNCHANGED <<goods, orders, settings, now, poolVars, codeVars, custVars, cleanVars, lockVars, watchVars>>

\* ---- checkout for cash, the bonus, the sweeper
\* process_cash_payment in its one session: the bonus taken from the buyer,
\* the order, its hold, one commit; a failed hold rolls all of it back
CashCheckout(b, items, bonus_applied) ==
    LET order_id == Cardinality(DOMAIN orders) + 1
        s == [Session EXCEPT
                 !.orders = Append(orders, NewOrder(b, "cash", items, bonus_applied, None))]
        r == reserve_inventory(Session, s, order_id, items, "cash", settings, now)
    IN  /\ ~(bonus_applied > 0 /\ bonus_balance[b] < bonus_applied)
        /\ order_id \in OrderIds
        /\ Commit(r)
        /\ bonus_balance' = IF r.ok THEN [bonus_balance EXCEPT ![b] = @ - bonus_applied]
                            ELSE bonus_balance
        /\ last' = Call("reserve", order_id, items, "", 0, "cash", r)
        /\ UNCHANGED <<settings, now, poolVars, codeVars, sessVars, cleanVars, lockVars, watchVars>>

\* a referral bonus is credited to a buyer
GrantBonus(b) ==
    /\ bonus_balance[b] < MaxBonus
    /\ bonus_balance' = [bonus_balance EXCEPT ![b] = @ + 1]
    /\ last' = NoCall
    /\ UNCHANGED <<goods, orders, settings, now, poolVars, codeVars, sessVars, cleanVars, lockVars, watchVars>>

\* one cycle of the sweeper that runs to its commit
SweeperCycle ==
    LET st == cleanup_expired_reservations(Session, bonus_balance, now)
    IN  /\ goods' = st.s.goods
        /\ orders' = st.s.orders
        /\ bonus_balance' = st.balance
        /\ last' = [NoCall EXCEPT !.op = "sweep", !.quantity = st.count,
                                  !.pre_goods = goods, !.pre_orders = orders]
        /\ UNCHANGED <<settings, now, poolVars, codeVars, sessVars, cleanVars, lockVars, watchVars>>

\* ---- the cleaner task, step by step: the cycle awaits inside its loop, and
\* the admin's commands run in another process, so other transactions commit
\* between the query of the cycle and the handling of each selected order
\* the rows of the query, in the order of their ids
RECURSIVE ascending(_)
ascending(selected) ==
    IF selected = {} THEN <<>>
    ELSE LET order_id == CHOOSE o \in selected : \A x \in selected : o <= x
         IN  <<order_id>> \o ascending(selected \ {order_id})

\* the session of the cycle: the committed rows until the cycle locks one
cleaner_session ==
    IF cleaner.st = None
    THEN [s |-> Session, balance |-> bonus_balance, count |-> 0]
    ELSE cleaner.st[1]

\* no row is locked by the cycle in flight
CleanerFree == cleaner.st = None

\* the query for expired orders at the start of a cycle
CleanerSelect ==
    /\ cleaner.pc = "cycle"
    /\ cleaner' = [CleanerState("orders", 0) EXCEPT
                       !.selected = ascending(expired_orders(orders, now))]
    /\ last' = NoCall
    /\ UNCHANGED <<goods, orders, settings, now, poolVars, codeVars, sessVars, custVars, lockVars, watchVars>>

\* the body of the loop for the next selected order: the rows are read and
\* locked as they are now, the changes wait for the commit of the cycle
CleanerOrder ==
    /\ cleaner.pc = "orders"
    /\ cleaner.selected # <<>>
    /\ sess = None
    /\ LET order_id == Head(cleaner.selected)
           st == cleaner_session
       IN  cleaner' = [cleaner EXCEPT
                          !.selected = Tail(@),
                          !.processed = Append(@, order_id),
                          !.st = Some(cleanup_order(st.s, st, order_id))]
    /\ last' = NoCall
    /\ UNCHANGED <<goods, orders, settings, now, poolVars, codeVars, sessVars, custVars, lockVars, watchVars>>

\* mutant: the exception ends the task
CleanerRaise_stops ==
    /\ cleaner.pc = "orders"
    /\ cleaner.selected # <<>>
    /\ cleaner' = CleanerState("stopped", 0)
    /\ last' = NoCall
    /\ UNCHANGED <<goods, orders, settings, now, poolVars, codeVars, sessVars, custVars, lockVars, watchVars>>

\* an exception in the body of the loop for the next selected order leaves
\* the cycle: the session is closed without a commit and the task sleeps the
\* longer wait
CleanerRaise ==
    /\ cleaner.pc = "orders"
    /\ cleaner.selected # <<>>
    /\ cleaner' = [CleanerState("sleep", ErrorWait) EXCEPT !.raised = Head(cleaner.selected)]
    /\ last' = NoCall
    /\ UNCHANGED <<goods, orders, settings, now, poolVars, codeVars, sessVars, custVars, lockVars, watchVars>>

\* the one commit of the cycle, after the loop
CleanerCommit ==
    /\ cleaner.pc = "orders"
    /\ cleaner.selected = <<>>
    /\ LET st == cleaner_session
       IN  /\ goods' = st.s.goods
           /\ orders' = st.s.orders
           /\ bonus_balance' = st.balance
    /\ cleaner' = CleanerState("sleep", NormalWait)
    /\ last' = NoCall
    /\ UNCHANGED <<settings, now, poolVars, codeVars, sessVars, lockVars, watchVars>>

\* the sleep is over, the loop calls the next cycle
CleanerWake ==
    /\ cleaner.pc = "sleep"
    /\ cleaner' = CleanerState("cycle", cleaner.wait)
    /\ last' = NoCall
    /\ UNCHANGED <<goods, orders, settings, now, poolVars, codeVars, sessVars, custVars, lockVars, watchVars>>

\* ---- transactions side by side: every operation locks its Order row, then
\* the Goods row of each line in the order of its loop, and keeps the locks
\* until its commit or rollback
\* mutant: the Goods rows are read without a lock
row_locked_never(tx, w, item_name) == FALSE

\* another worker holds the lock of the Goods row
row_locked(tx, w, item_name) ==
    \E v \in DOMAIN tx : v # w /\ item_name \in tx[v].locks

\* a worker holds the lock of the Order row
order_locked(tx, order_id) ==
    \E v \in DOMAIN tx : tx[v].pc = "items" /\ tx[v].order_id = order_id

\* the body of the loop of an operation for one line on the locked row
tx_line(op, g, quantity) ==
    IF op = "reserve"
    THEN [ok |-> ~(available_quantity(g) < quantity), g |-> reserve_goods(g, quantity)]
    ELSE IF op = "release"
    THEN [ok |-> TRUE, g |-> release_goods(g, quantity)]
    ELSE [ok |-> ~(deduct_goods(g, quantity).stock_quantity < 0),
          g |-> deduct_goods(g, quantity)]

\* the session after a rollback: nothing changed, no lock held
tx_rollback(t) == [t EXCEPT !.pc = "done", !.ok = FALSE, !.locks = {}, !.rows = <<>>]

\* w is blocked on a row that v has locked
waits_for(tx, w, v) ==
    /\ v # w
    /\ tx[w].pc = "items"
    /\ tx[w].i <= Len(tx[w].items)
    /\ tx[w].items[tx[w].i].item_name \in tx[v].locks

AllIdle == \A w \in Workers : txs.tx[w].pc = "idle"

\* a worker opens a session and locks the Order row
TxBegin(w, op, order_id) ==
    /\ txs.tx[w].pc = "idle"
    /\ order_id \in DOMAIN orders
    /\ ~order_locked(txs.tx, order_id)
    /\ IF op = "reserve" THEN orders[order_id].order_status = "pending"
       ELSE orders[order_id].order_status = "reserved"
    /\ txs' = [base |-> IF AllIdle THEN goods ELSE txs.base,
               tx |-> [txs.tx EXCEPT ![w] =
                          [TxIdle EXCEPT !.pc = "items", !.op = op, !.order_id = order_id,
                                         !.items = orders[order_id].items]]]
    /\ last' = NoCall
    /\ UNCHANGED <<goods, orders, settings, now, poolVars, codeVars, sessVars, custVars, cleanVars, watchVars>>

\* the next line: lock its Goods row, which waits while another worker
\* holds it, read it and change it in the session
TxItem(w) ==
    LET t == txs.tx[w]
    IN  /\ t.pc = "items"
        /\ t.i <= Len(t.items)
        /\ LET item_name == t.items[t.i].item_name
               quantity == t.items[t.i].quantity
           IN  /\ ~row_locked(txs.tx, w, item_name)
               /\ IF item_name \notin DOMAIN goods
                  THEN txs' = [txs EXCEPT !.tx[w] =
                                  IF t.op = "release" THEN [t EXCEPT !.i = @ + 1]
                                  ELSE tx_rollback(t)]
                  ELSE LET g == IF item_name \in t.locks THEN t.rows[item_name]
                                ELSE goods[item_name]
                           r == tx_line(t.op, g, quantity)
                       IN  txs' = [txs EXCEPT !.tx[w] =
                                      IF ~r.ok THEN tx_rollback(t)
                                      ELSE [t EXCEPT
                                               !.i = @ + 1,
                                               !.locks = @ \cup {item_name},
                                               !.rows = [n \in t.locks \cup {item_name} |->
                                                            IF n = item_name THEN r.g
                                                            ELSE t.rows[n]]]]
        /\ last' = NoCall
        /\ UNCHANGED <<goods, orders, settings, now, poolVars, codeVars, sessVars, custVars, cleanVars, watchVars>>

\* after the loop: the Order row is updated, the session commits and the
\* locks go
TxCommit(w) ==
    LET t == txs.tx[w]
    IN  /\ t.pc = "items"
        /\ t.i > Len(t.items)
        /\ goods' = [n \in DOMAIN goods |-> IF n \in t.locks THEN t.rows[n] ELSE goods[n]]
        /\ orders' = [orders EXCEPT ![t.order_id] =
               IF t.op = "reserve"
               THEN [@ EXCEPT !.order_status = "reserved",
                              !.reserved_until =
                                  Some(reservation_deadline(now, @.payment_method,
                                           get_bot_setting(settings, DefaultTimeoutHours)))]
               ELSE [@ EXCEPT !.reserved_until = None]]
        /\ txs' = [txs EXCEPT !.tx[w] = [t EXCEPT !.pc = "done", !.ok = TRUE,
                                                 !.locks = {}, !.rows = <<>>]]
        /\ last' = NoCall
        /\ UNCHANGED <<settings, now, poolVars, codeVars, sessVars, custVars, cleanVars, watchVars>>

\* two workers wait for each other: the database ends the wait of one with
\* an error, the operation catches it, rolls back and reports failure
TxDeadlock(w) ==
    /\ \E v \in Workers : waits_for(txs.tx, w, v) /\ waits_for(txs.tx, v, w)
    /\ txs' = [txs EXCEPT !.tx[w] = tx_rollback(txs.tx[w])]
    /\ last' = NoCall
    /\ UNCHANGED <<goods, orders, settings, now, poolVars, codeVars, sessVars, custVars, cleanVars, watchVars>>

\* the operations have returned to their callers
TxReturn ==
    /\ \A w \in Workers : txs.tx[w].pc \in {"idle", "done"}
    /\ ~AllIdle
    /\ txs' = [base |-> goods, tx |-> [w \in Workers |-> TxIdle]]
    /\ last' = NoCall
    /\ UNCHANGED <<goods, orders, settings, now, poolVars, codeVars, sessVars, custVars, cleanVars, watchVars>>

\* ---- the admin's commands
\* the OrderItem rows after add_item_to_order: the line of the item grows, or
\* a line is added
add_order_item(items, item_name, quantity) ==
    IF \E k \in DOMAIN items : items[k].item_name = item_name
    THEN [k \in DOMAIN items |->
             IF items[k].item_name = item_name
             THEN [items[k] EXCEPT !.quantity = @ + quantity]
             ELSE items[k]]
    ELSE Append(items, [item_name |-> item_name, quantity |-> quantity])

\* the record of a command of the admin
AdminCall(op, order_id, r) ==
    [NoCall EXCEPT !.op = op, !.order_id = order_id, !.ok = r.ok, !.msg = r.msg]

\* complete_order_by_code: refused for a completed or canceled order;
\* otherwise the deduction and the status completed, one commit
CompleteOrder(order_id) ==
    /\ sess = None
    /\ order_id \in DOMAIN orders
    /\ orders[order_id].order_status \notin {"completed", "canceled"}
    /\ LET r == deduct_inventory(Session, Session, order_id)
       IN  /\ goods' = IF r.ok THEN r.s.goods ELSE goods
           /\ orders' = IF r.ok THEN [r.s.orders EXCEPT ![order_id].order_status = "completed"]
                        ELSE orders
           /\ last' = AdminCall("complete", order_id, r)
    /\ UNCHANGED <<settings, now, asideVars>>

\* cancel_order_by_code: refused for a canceled or completed order; otherwise
\* the release, the status canceled and the bonus given back, one commit
CancelOrder(order_id) ==
    /\ sess = None
    /\ order_id \in DOMAIN orders
    /\ orders[order_id].order_status \notin {"canceled", "completed"}
    /\ LET r == release_reservation(Session, Session, order_id)
       IN  /\ goods' = r.s.goods
           /\ orders' = [r.s.orders EXCEPT ![order_id].order_status = "canceled"]
           /\ bonus_balance' = refund_bonus(bonus_balance, orders[order_id])
           /\ last' = AdminCall("cancel", order_id, r)
    /\ UNCHANGED <<settings, now, poolVars, codeVars, sessVars, cleanVars, lockVars, watchVars>>

\* confirm_order: refused for a delivered, cancelled or expired order;
\* otherwise the status confirmed, and a deadline less than an hour away is
\* moved to an hour after the delivery time
ConfirmOrder(order_id, delivery_time) ==
    /\ sess = None
    /\ order_id \in DOMAIN orders
    /\ orders[order_id].order_status \notin {"delivered", "cancelled", "canceled", "expired"}
    /\ orders' = [orders EXCEPT
                     ![order_id].order_status = "confirmed",
                     ![order_id].reserved_until =
                         IF @ # None /\ @[1] < now + 1 THEN Some(delivery_time + 1) ELSE @]
    /\ last' = [NoCall EXCEPT !.op = "confirm", !.order_id = order_id, !.ok = TRUE]
    /\ UNCHANGED <<goods, settings, now, asideVars>>

\* add_item_to_order: the line is written, and unless the order is delivered
\* the added quantity is reserved in the same session; a failed hold rolls
\* the line back
AddItemToOrder(order_id, item_name, quantity) ==
    /\ sess = None
    /\ order_id \in DOMAIN orders
    /\ item_name \in DOMAIN goods
    /\ LET s == [Session EXCEPT !.orders[order_id].items =
                                   add_order_item(@, item_name, quantity)]
           line == <<[item_name |-> item_name, quantity |-> quantity]>>
           r == IF orders[order_id].order_status # "delivered"
                THEN reserve_inventory(Session, s, order_id, line,
                                       orders[order_id].payment_method, settings, now)
                ELSE Result(TRUE, "", "", s)
       IN  /\ \A k \in DOMAIN s.orders[order_id].items :
                  s.orders[order_id].items[k].quantity <= MaxStock
           /\ Commit(r)
           /\ last' = AdminCall("add_item", order_id, r)
    /\ UNCHANGED <<settings, now, asideVars>>

\* the line of the item with the quantity taken off, or the line deleted
remove_order_item(items, item_name, quantity) ==
    LET less == [k \in DOMAIN items |->
                    IF items[k].item_name = item_name
                    THEN [items[k] EXCEPT !.quantity = @ - quantity]
                    ELSE items[k]]
        left(l) == l.quantity > 0
    IN  SelectSeq(less, left)

\* remove_item_from_order: refused when the order has no line of the item or
\* a smaller one; otherwise the line is reduced or deleted and the quantity
\* is taken off the hold of the item, whatever the status of the order
RemoveItemFromOrder(order_id, item_name, quantity) ==
    /\ sess = None
    /\ order_id \in DOMAIN orders
    /\ LET items == orders[order_id].items
           found == \E k \in DOMAIN items :
                        items[k].item_name = item_name /\ items[k].quantity >= quantity
       IN  /\ found /\ item_name \in DOMAIN goods =>
                  goods[item_name].reserved_quantity - quantity >= -MaxQty
           /\ orders' = IF found
                        THEN [orders EXCEPT ![order_id].items =
                                                remove_order_item(@, item_name, quantity)]
                        ELSE orders
           /\ goods' = IF found /\ item_name \in DOMAIN goods
                       THEN [goods EXCEPT ![item_name].reserved_quantity = @ - quantity]
                       ELSE goods
           /\ last' = [NoCall EXCEPT !.op = "remove_item", !.order_id = order_id,
                                     !.item_name = item_name, !.quantity = quantity,
                                     !.ok = found]
    /\ UNCHANGED <<settings, now, asideVars>>

\* ---- the file watcher (bot/tasks/file_watcher.py)
\* mutant: no event is too soon
debounced_never(current_time, last_reload_time) == FALSE

\* the event comes too soon after the last reload
debounced(current_time, last_reload_time) ==
    current_time - last_reload_time < debounce_seconds

\* whether on_modified reloads for the event
reloads(event, current_time, last_reload_time) ==
    /\ ~event.is_directory
    /\ event.src_path = FilePath
    /\ ~debounced(current_time, last_reload_time)

\* the operator, or anything else, writes a line to the file; the observer
\* queues the modification event
OperatorWrite(line) ==
    /\ watcher.pending = None
    /\ Len(btc_file) < MaxWrites
    /\ btc_file' = Append(btc_file, line)
    /\ watcher' = [watcher EXCEPT !.pending = Some(FileSystemEvent(FilePath, FALSE))]
    /\ plast' = NoPoolCall
    /\ UNCHANGED <<pool, held, stockVars, codeVars, sessVars, custVars, cleanVars, lockVars>>

\* an event for another file of the directory or for a directory
OtherEvent(src_path, is_directory) ==
    /\ watcher.pending = None
    /\ src_path # FilePath \/ is_directory
    /\ watcher' = [watcher EXCEPT !.pending = Some(FileSystemEvent(src_path, is_directory))]
    /\ plast' = NoPoolCall
    /\ UNCHANGED <<pool, btc_file, held, stockVars, codeVars, sessVars, custVars, cleanVars, lockVars>>

\* on_modified for the queued event, with the reload it may make
on_modified ==
    /\ watcher.pending # None
    /\ LET event == watcher.pending[1]
           reload == reloads(event, watcher.time, watcher.last_reload_time)
           r == load_bitcoin_addresses_from_file(pool, btc_file)
       IN  /\ watcher' = [watcher EXCEPT
                  !.pending = None,
                  !.last_reload_time = IF reload THEN watcher.time ELSE @,
                  !.event = [src_path |-> event.src_path,
                             is_directory |-> event.is_directory,
                             at |-> watcher.time,
                             last_reload_time |-> watcher.last_reload_time,
                             reloaded |-> reload]]
           /\ pool' = IF reload THEN r.pool ELSE pool
           /\ plast' = IF reload
                       THEN PoolCall("load", "", SelectSeq(btc_file, is_address_line), 0, 0,
                                     r.ok, r.count, None)
                       ELSE NoPoolCall
    /\ UNCHANGED <<btc_file, held, stockVars, codeVars, sessVars, custVars, cleanVars, lockVars>>

\* a second passes
WatcherTick ==
    /\ watcher.time < MaxTime
    /\ watcher' = [watcher EXCEPT !.time = @ + 1]
    /\ plast' = NoPoolCall
    /\ UNCHANGED <<pool, btc_file, held, stockVars, codeVars, sessVars, custVars, cleanVars, lockVars>>

\* ---- an unexpected fault inside an operation: the lock of line k + 1 of the
\* order raises (a lock timeout, a lost connection) after k lines were handled
FaultPoints == 0..1

\* release_reservation when the lock of line k + 1 raises: the except path
\* rolls back only a session of its own, a session of the caller keeps the
\* lines released so far
release_reservation_fault(base, s, order_id, k, session_given) ==
    Result(FALSE, "Error releasing reservation", "",
        IF session_given
        THEN release_items(s, order_id, SubSeq(s.orders[order_id].items, 1, k), 1)
        ELSE rollback(base, s))

\* deduct_inventory when the lock of line k + 1 raises
deduct_inventory_fault(base, s, order_id, k, session_given) ==
    LET r == deduct_items(base, s, order_id, SubSeq(s.orders[order_id].items, 1, k), 1)
    IN  IF ~r.ok THEN r
        ELSE Result(FALSE, "Error deducting inventory", "",
                 IF session_given THEN r.s ELSE rollback(base, s))

\* the body of the cleaner's loop when the release of the order raises: the
\* order is skipped, the session goes on to the next order
cleanup_order_fault(base, st, order_id, k) ==
    [st EXCEPT !.s = release_reservation_fault(base, st.s, order_id, k, TRUE).s]

RECURSIVE cleanup_orders_fault(_, _, _, _, _)
cleanup_orders_fault(base, st, selected, faulty, k) ==
    IF selected = {} THEN st
    ELSE LET order_id == CHOOSE o \in selected : \A x \in selected : o <= x
         IN  cleanup_orders_fault(base,
                 IF order_id = faulty THEN cleanup_order_fault(base, st, order_id, k)
                 ELSE cleanup_order(base, st, order_id),
                 selected \ {order_id}, faulty, k)

\* an order with a line after the first k
FaultAt(order_id, k) ==
    order_id \in DOMAIN orders /\ k < Len(orders[order_id].items)

\* release_reservation with session=None and a fault
ReleaseFault(order_id, k) ==
    /\ FaultAt(order_id, k)
    /\ LET r == release_reservation_fault(Session, Session, order_id, k, FALSE)
       IN  /\ Commit(r)
           /\ last' = AdminCall("release", order_id, r)
    /\ UNCHANGED <<settings, now, asideVars>>

\* cancel_order_by_code when its release raises: the command prints a
\* warning and goes on to the status, the bonus and the commit
CancelOrderFault(order_id, k) ==
    /\ sess = None
    /\ FaultAt(order_id, k)
    /\ orders[order_id].order_status \notin {"canceled", "completed"}
    /\ LET r == release_reservation_fault(Session, Session, order_id, k, TRUE)
       IN  /\ goods' = r.s.goods
           /\ orders' = [r.s.orders EXCEPT ![order_id].order_status = "canceled"]
           /\ bonus_balance' = refund_bonus(bonus_balance, orders[order_id])
           /\ last' = AdminCall("cancel", order_id, r)
    /\ UNCHANGED <<settings, now, poolVars, codeVars, sessVars, cleanVars, lockVars, watchVars>>

\* mark_order_delivered when its deduction raises: the command returns
\* and its session is closed without a commit
DeliverFault(order_id, k) ==
    /\ sess = None
    /\ FaultAt(order_id, k)
    /\ orders[order_id].order_status \notin {"delivered", "cancelled", "canceled", "expired"}
    /\ LET r == deduct_inventory_fault(Session, Session, order_id, k, TRUE)
       IN  last' = AdminCall("deliver", order_id, r)
    /\ UNCHANGED <<goods, orders, settings, now, asideVars>>

\* a cycle of the cleaner in which the release of one selected order raises
SweeperCycleFault(order_id, k) ==
    /\ FaultAt(order_id, k)
    /\ order_id \in expired_orders(orders, now)
    /\ LET st == cleanup_orders_fault(Session,
                     [s |-> Session, balance |-> bonus_balance, count |-> 0],
                     expired_orders(orders, now), order_id, k)
       IN  /\ goods' = st.s.goods
           /\ orders' = st.s.orders
           /\ bonus_balance' = st.balance
           /\ last' = [NoCall EXCEPT !.op = "sweep", !.order_id = order_id,
                                     !.quantity = st.count,
                                     !.msg = "Error releasing reservation"]
    /\ UNCHANGED <<settings, now, poolVars, codeVars, sessVars, cleanVars, lockVars, watchVars>>

\* checkout asks for the lines of the order it has written; a call for an
\* order that is not in the book asks for one line
Requests(order_id) ==
    IF order_id \in DOMAIN orders THEN {orders[order_id].items} ELSE SingleLines

\* the stock ledger under cash orders, the clock and the settings at rest
Next ==
    \/ \E o \in OrderIds : \E il \in Requests(o) : Reserve(o, il, "None")
    \/ \E o \in OrderIds : Release(o)
    \/ \E o \in OrderIds : Deduct(o)
    \/ \E n \in ItemNames, q \in Quantities : Restock(n, q)
    \/ \E n \in ItemNames : DeleteItem(n)
    \/ \E il \in CartLists : CreateOrder("cash", il)

Spec == Init /\ [][Next]_vars

\* the reservation deadline: orders of one line under both payment methods,
\* with the clock and the timeout setting moving
DeadlineItem == CHOOSE n \in ItemNames : TRUE

DeadlineCarts == {il \in SingleLines : il[1].item_name = DeadlineItem}

NextDeadline ==
    \/ \E o \in OrderIds, pm \in PaymentMethods \cup {"None"} :
           \E il \in DeadlineCarts : Reserve(o, il, pm)
    \/ \E o \in OrderIds : Release(o)
    \/ \E q \in Quantities : Restock(DeadlineItem, q)
    \/ \E pm \in PaymentMethods, il \in DeadlineCarts : CreateOrder(pm, il)
    \/ \E h \in TimeoutInputs : SetOrderTimeout(h)
    \/ Tick

SpecDeadline == Init /\ [][NextDeadline]_vars

\* the address pool under its own calls
NextPool ==
    \/ LoadFromFile
    \/ Allocate
    \/ \E a \in Addresses, u \in Buyers, o \in OrderIds : MarkUsed(a, u, o)
    \/ \E a \in Addresses : AddAddress(a)
    \/ \E al \in AddressLists : AddAddressesBulk(al)
    \/ \E l \in FileLines : OperatorAppend(l)

SpecPool == Init /\ [][NextPool]_vars

\* the pool and its file under the calls of the bot alone: nobody edits the
\* file by hand and the file is not read back
NextReplenish ==
    \/ \E a \in Addresses, u \in Buyers, o \in OrderIds : MarkUsed(a, u, o)
    \/ \E a \in Addresses : AddAddress(a)
    \/ \E al \in AddressLists : AddAddressesBulk(al)

SpecReplenish == Init /\ [][NextReplenish]_vars

\* two bitcoin checkouts in flight over the pool and the stock of one item
NextCheckout ==
    \/ LoadFromFile
    \/ \E l \in FileLines : OperatorAppend(l)
    \/ \E b \in Buyers : BitcoinCheckoutStart(b)
    \/ \E b \in Buyers, il \in DeadlineCarts : BitcoinCheckoutFinish(b, il)
    \/ \E q \in Quantities : Restock(DeadlineItem, q)

SpecCheckout == Init /\ [][NextCheckout]_vars

\* the stock of one item under calls of their own and calls in a session
\* of the caller, the deliver flow among them; one session at a time
NextSession ==
    \/ \E q \in Quantities : sess = None /\ Restock(DeadlineItem, q)
    \/ \E il \in DeadlineCarts : sess = None /\ CreateOrder("cash", il)
    \/ \E o \in OrderIds : \E il \in DeadlineCarts : sess = None /\ Reserve(o, il, "None")
    \/ SessionBegin
    \/ \E o \in OrderIds : \E il \in DeadlineCarts : SessionReserve(o, il)
    \/ \E o \in OrderIds : SessionRelease(o)
    \/ \E o \in OrderIds : SessionDeduct(o)
    \/ \E q \in Quantities : SessionRestock(DeadlineItem, q)
    \/ \E o \in OrderIds : DeliverBegin(o)
    \/ SessionCommit
    \/ SessionRollback

SpecSession == Init /\ [][NextSession]_vars

\* cash orders of one item with a bonus, the clock, and the sweeper
NextSweeper ==
    \/ \E q \in Quantities : Restock(DeadlineItem, q)
    \/ \E b \in Buyers, il \in DeadlineCarts, a \in BonusAmounts : CashCheckout(b, il, a)
    \/ \E b \in Buyers : GrantBonus(b)
    \/ SetOrderTimeout(MinTimeoutHours)
    \/ Tick
    \/ SweeperCycle

SpecSweeper == Init /\ [][NextSweeper]_vars

\* cash orders of one buyer for one item under the admin's commands and the
\* sweeper
AdminBuyer == CHOOSE b \in Buyers : TRUE

NextAdmin ==
    \/ \E q \in Quantities : sess = None /\ Restock(DeadlineItem, q)
    \/ \E il \in DeadlineCarts : sess = None /\ CashCheckout(AdminBuyer, il, 0)
    \/ sess = None /\ SetOrderTimeout(MinTimeoutHours)
    \/ sess = None /\ Tick
    \/ sess = None /\ SweeperCycle
    \/ \E o \in OrderIds : CompleteOrder(o)
    \/ \E o \in OrderIds : CancelOrder(o)
    \/ \E o \in OrderIds : ConfirmOrder(o, now)
    \/ \E o \in OrderIds, q \in Quantities : AddItemToOrder(o, DeadlineItem, q)
    \/ \E o \in OrderIds : DeliverBegin(o)
    \/ SessionCommit
    \/ SessionRollback

SpecAdmin == Init /\ [][NextAdmin]_vars

\* the commands that move the hold of an item: checkout, confirm, deliver,
\* cancel, the changes of the lines of an order, and the sweeper
NextLedger ==
    \/ \E q \in Quantities : sess = None /\ Restock(DeadlineItem, q)
    \/ \E il \in DeadlineCarts : sess = None /\ CashCheckout(AdminBuyer, il, 0)
    \/ sess = None /\ SetOrderTimeout(MinTimeoutHours)
    \/ sess = None /\ Tick
    \/ sess = None /\ SweeperCycle
    \/ \E o \in OrderIds : CancelOrder(o)
    \/ \E o \in OrderIds : ConfirmOrder(o, now)
    \/ \E o \in OrderIds, q \in Quantities : AddItemToOrder(o, DeadlineItem, q)
    \/ \E o \in OrderIds, q \in Quantities : RemoveItemFromOrder(o, DeadlineItem, q)
    \/ \E o \in OrderIds : DeliverBegin(o)
    \/ SessionCommit
    \/ SessionRollback

SpecLedger == Init /\ [][NextLedger]_vars

\* the commands of the admin that end an order: complete, deliver, cancel
NextFulfil ==
    \/ \E q \in Quantities : sess = None /\ Restock(DeadlineItem, q)
    \/ \E il \in DeadlineCarts : sess = None /\ CashCheckout(AdminBuyer, il, 0)
    \/ \E o \in OrderIds : CompleteOrder(o)
    \/ \E o \in OrderIds : CancelOrder(o)
    \/ \E o \in OrderIds : DeliverBegin(o)
    \/ SessionCommit
    \/ SessionRollback

SpecFulfil == Init /\ [][NextFulfil]_vars

\* the two ways an order with a bonus ends unpaid: the sweeper and the
\* cancel command
NextRefund ==
    \/ \E q \in Quantities : Restock(DeadlineItem, q)
    \/ \E b \in Buyers, il \in DeadlineCarts, a \in BonusAmounts : CashCheckout(b, il, a)
    \/ \E b \in Buyers : GrantBonus(b)
    \/ SetOrderTimeout(MinTimeoutHours)
    \/ Tick
    \/ SweeperCycle
    \/ \E o \in OrderIds : CancelOrder(o)

SpecRefund == Init /\ [][NextRefund]_vars

\* the cleaner task step by step beside a shop with one item, buyers
\* checking out and the admin confirming, delivering and cancelling; a
\* transaction that needs a row the cycle has locked waits for its end
NextCleaner ==
    \/ \E q \in Quantities : CleanerFree /\ sess = None /\ Restock(DeadlineItem, q)
    \/ \E il \in DeadlineCarts : CleanerFree /\ sess = None /\ CashCheckout(AdminBuyer, il, 0)
    \/ sess = None /\ SetOrderTimeout(MinTimeoutHours)
    \/ sess = None /\ Tick
    \/ \E o \in OrderIds : CleanerFree /\ CancelOrder(o)
    \/ \E o \in OrderIds : CleanerFree /\ ConfirmOrder(o, now)
    \/ \E o \in OrderIds : CleanerFree /\ DeliverBegin(o)
    \/ SessionCommit
    \/ CleanerSelect
    \/ CleanerOrder
    \/ CleanerRaise
    \/ CleanerCommit
    \/ CleanerWake

SpecCleaner == Init /\ [][NextCleaner]_vars

\* two workers reserving, releasing and deducting side by side, row lock
\* by row lock
StockOps == {"reserve", "release", "deduct"}

\* carts of one piece of each item they name
LockCarts == {il \in CartLists : \A k \in DOMAIN il : il[k].quantity = 1}

NextLocks ==
    \/ \E n \in ItemNames : AllIdle /\ Restock(n, 1)
    \/ \E il \in LockCarts : CreateOrder("cash", il)
    \/ \E w \in Workers, op \in StockOps, o \in OrderIds : TxBegin(w, op, o)
    \/ \E w \in Workers : TxItem(w)
    \/ \E w \in Workers : TxCommit(w)
    \/ \E w \in Workers : TxDeadlock(w)
    \/ TxReturn

SpecLocks == Init /\ [][NextLocks]_vars

\* the cleaner task on the event loop: the loop runs the task whenever it
\* can go on, so the query, the handling of the next order, the commit and
\* the wake-up are weakly fair; an exception is not
NextCleanerFair ==
    \/ \E q \in Quantities : CleanerFree /\ Restock(DeadlineItem, q)
    \/ \E il \in DeadlineCarts : CleanerFree /\ CashCheckout(AdminBuyer, il, 0)
    \/ SetOrderTimeout(MinTimeoutHours)
    \/ Tick
    \/ CleanerSelect
    \/ CleanerOrder
    \/ CleanerRaise
    \/ CleanerCommit
    \/ CleanerWake

SpecCleanerFair ==
    /\ Init /\ [][NextCleanerFair]_vars
    /\ WF_vars(CleanerSelect) /\ WF_vars(CleanerOrder)
    /\ WF_vars(CleanerCommit) /\ WF_vars(CleanerWake)

\* orders written without a hold, and what the operations that take an
\* order make of them: deduct, the admin's confirm and deliver, the cleaner
NextUnreserved ==
    \/ \E q \in Quantities : sess = None /\ Restock(DeadlineItem, q)
    \/ \E il \in DeadlineCarts : sess = None /\ CreateOrder("cash", il)
    \/ sess = None /\ Tick
    \/ sess = None /\ SweeperCycle
    \/ \E o \in OrderIds : sess = None /\ Deduct(o)
    \/ \E o \in OrderIds : ConfirmOrder(o, now)
    \/ \E o \in OrderIds : DeliverBegin(o)
    \/ SessionCommit
    \/ SessionRollback

SpecUnreserved == Init /\ [][NextUnreserved]_vars

\* the operations under unexpected faults: buyers check out carts of one
\* or two lines, the admin releases, cancels and delivers, the cleaner runs,
\* and any of their item loops may raise part-way
NextFaults ==
    \/ \E n \in ItemNames : Restock(n, 1)
    \/ \E il \in LockCarts : CashCheckout(AdminBuyer, il, 0)
    \/ SetOrderTimeout(MinTimeoutHours)
    \/ Tick
    \/ SweeperCycle
    \/ \E o \in OrderIds : CancelOrder(o)
    \/ \E o \in OrderIds, k \in FaultPoints : ReleaseFault(o, k)
    \/ \E o \in OrderIds, k \in FaultPoints : CancelOrderFault(o, k)
    \/ \E o \in OrderIds, k \in FaultPoints : DeliverFault(o, k)
    \/ \E o \in OrderIds, k \in FaultPoints : SweeperCycleFault(o, k)

SpecFaults == Init /\ [][NextFaults]_vars

\* the watcher at work: lines are written to the file, events of all kinds
\* arrive, the observer's thread hands each to on_modified, time passes
NextWatcher ==
    \/ \E line \in FileLines : OperatorWrite(line)
    \/ \E src_path \in EventPaths, is_directory \in BOOLEAN : OtherEvent(src_path, is_directory)
    \/ on_modified
    \/ WatcherTick

SpecWatcher == Init /\ [][NextWatcher]_vars

\* the observer's thread hands every queued event to the handler, and time
\* goes on
SpecWatcherFair == SpecWatcher /\ WF_vars(on_modified) /\ WF_vars(WatcherTick)

\* the order codes
NextCodes ==
    \/ GenerateStart
    \/ \E d \in Draws : GenerateStep(d)
    \/ GenerateRaise
    \/ StoreCode

SpecCodes == Init /\ [][NextCodes]_vars

\* ======================================================== the properties
\* the quantity a list of lines asks of one item
RECURSIVE Requested(_, _)
Requested(items, n) ==
    IF items = <<>> THEN 0
    ELSE (IF Head(items).item_name = n THEN Head(items).quantity ELSE 0)
         + Requested(Tail(items), n)

Floor0(x) == IF x < 0 THEN 0 ELSE x

Missing(g, line) == line.item_name \notin DOMAIN g

Short(g, line) ==
    /\ line.item_name \in DOMAIN g
    /\ g[line.item_name].stock_quantity - g[line.item_name].reserved_quantity < line.quantity

OnOrder(op) == last.op = op /\ last.order_id \in DOMAIN last.pre_orders

LinesOf(order_id) == last.pre_orders[order_id].items

SameCatalog == DOMAIN goods = DOMAIN last.pre_goods

\* C1: in every committed state every item has reserved_quantity >= 0 and
\* stock_quantity >= 0
C1_NonNegative ==
    \A n \in DOMAIN goods :
        goods[n].reserved_quantity >= 0 /\ goods[n].stock_quantity >= 0

\* a deduct that met a hold smaller than the line and floored it
C1_Witness ==
    /\ OnOrder("deduct") /\ last.ok
    /\ \E k \in 1..Len(LinesOf(last.order_id)) :
           last.pre_goods[LinesOf(last.order_id)[k].item_name].reserved_quantity
               < LinesOf(last.order_id)[k].quantity

\* C2: a reserve that names a missing item or an item with less available
\* than requested fails, and every item, the order's status and its
\* reserved_until are as before the call
C2_ReserveAllOrNothing ==
    (/\ OnOrder("reserve")
     /\ \E k \in 1..Len(last.items) :
            Missing(last.pre_goods, last.items[k]) \/ Short(last.pre_goods, last.items[k]))
    => (~last.ok /\ goods = last.pre_goods /\ orders = last.pre_orders)

\* a request of two lines that failed on the second after the first passed
C2_Witness ==
    /\ OnOrder("reserve") /\ ~last.ok
    /\ Len(last.items) = 2
    /\ last.failed_item = last.items[2].item_name
    /\ ~Missing(last.pre_goods, last.items[1]) /\ ~Short(last.pre_goods, last.items[1])

\* C3 as stated: reserve is rejected for insufficient stock exactly when some
\* requested item has less available than requested
C3_Original ==
    OnOrder("reserve") =>
        ((~last.ok /\ last.msg = "Insufficient stock")
         <=> \E k \in 1..Len(last.items) : Short(last.pre_goods, last.items[k]))

\* C3 as amended: reserve (of lines naming distinct items, for an existing
\* order) is rejected for insufficient stock exactly when some requested item
\* has less available than requested and no line before the first such line
\* names a missing item; while an item's whole stock is held, every reserve
\* that asks for it fails
C3_InsufficientExactly ==
    OnOrder("reserve") =>
        /\ (~last.ok /\ last.msg = "Insufficient stock")
           <=> \E k \in 1..Len(last.items) :
                   /\ Short(last.pre_goods, last.items[k])
                   /\ \A j \in 1..(k - 1) : ~Missing(last.pre_goods, last.items[j])
        /\ (\E k \in 1..Len(last.items) :
                /\ ~Missing(last.pre_goods, last.items[k])
                /\ last.pre_goods[last.items[k].item_name].reserved_quantity
                       >= last.pre_goods[last.items[k].item_name].stock_quantity)
           => ~last.ok

\* another order holds the whole stock of the item and the reserve is rejected
C3_Witness ==
    /\ OnOrder("reserve") /\ ~last.ok /\ last.msg = "Insufficient stock"
    /\ \E o \in DOMAIN last.pre_orders \ {last.order_id} :
           /\ last.pre_orders[o].order_status = "reserved"
           /\ last.pre_orders[o].reserved_until # None
           /\ \E k \in 1..Len(last.pre_orders[o].items) :
                  LET l == last.pre_orders[o].items[k]
                  IN  /\ l.item_name = last.failed_item
                      /\ last.pre_goods[l.item_name].stock_quantity = l.quantity
                      /\ last.pre_goods[l.item_name].reserved_quantity = l.quantity

\* C4: a successful reserve adds exactly the requested quantity to each
\* requested item's reserved_quantity, changes no stock_quantity, sets the
\* order's status to reserved and its reserved_until to a deadline
C4_ReserveSuccess ==
    (OnOrder("reserve") /\ last.ok) =>
        /\ SameCatalog
        /\ \A n \in DOMAIN goods :
               /\ goods[n].reserved_quantity =
                      last.pre_goods[n].reserved_quantity + Requested(last.items, n)
               /\ goods[n].stock_quantity = last.pre_goods[n].stock_quantity
        /\ orders[last.order_id].order_status = "reserved"
        /\ orders[last.order_id].reserved_until # None

\* a successful reserve of two lines for items that already carried a hold
C4_Witness ==
    /\ OnOrder("reserve") /\ last.ok
    /\ Len(last.items) = 2
    /\ \E n \in DOMAIN last.pre_goods : last.pre_goods[n].reserved_quantity > 0

\* C5: a successful reserve of an order's lines followed at once by the
\* release of the order restores every item's reserved_quantity, leaves
\* stock_quantity alone and clears reserved_until
C5_ReserveReleaseRoundTrip ==
    [][(/\ OnOrder("reserve") /\ last.ok
        /\ last.items = orders[last.order_id].items
        /\ last'.op = "release" /\ last'.order_id = last.order_id)
       => (/\ last'.ok
           /\ DOMAIN goods' = DOMAIN last.pre_goods
           /\ \A n \in DOMAIN goods' :
                  /\ goods'[n].reserved_quantity = last.pre_goods[n].reserved_quantity
                  /\ goods'[n].stock_quantity = last.pre_goods[n].stock_quantity
           /\ orders'[last.order_id].reserved_until = None)]_vars

\* a release right after the reserve of the same order, with another hold on
\* one of its items
C5_Witness ==
    /\ OnOrder("release") /\ last.ok /\ last.follows = "reserve"
    /\ \E k \in 1..Len(LinesOf(last.order_id)) :
           goods[LinesOf(last.order_id)[k].item_name].reserved_quantity > 0

\* C6: a release of an existing order succeeds, also when the order was
\* released before, and leaves each of its items with its reserved_quantity
\* less the line quantity, floored at zero
C6_ReleaseFloor ==
    OnOrder("release") =>
        /\ last.ok
        /\ SameCatalog
        /\ \A n \in DOMAIN goods :
               /\ goods[n].reserved_quantity >= 0
               /\ goods[n].reserved_quantity =
                      Floor0(last.pre_goods[n].reserved_quantity
                                 - Requested(LinesOf(last.order_id), n))

\* a release right after a release of the same order, which met a hold
\* smaller than the line
C6_Witness ==
    /\ OnOrder("release") /\ last.ok /\ last.follows = "release"
    /\ \E k \in 1..Len(LinesOf(last.order_id)) :
           LET l == LinesOf(last.order_id)[k]
           IN  /\ l.item_name \in DOMAIN last.pre_goods
               /\ last.pre_goods[l.item_name].reserved_quantity < l.quantity

\* the payment method a reserve acts under: the argument, or the order's own
PaymentMethodOf(call) ==
    IF call.payment_method = "None" THEN call.pre_orders[call.order_id].payment_method
    ELSE call.payment_method

\* C7: a successful reserve sets reserved_until to now plus the configured
\* cash timeout (default 24 hours) for a cash order and to now plus 7 days
\* for a bitcoin order
C7_DeadlineByPaymentMethod ==
    (OnOrder("reserve") /\ last.ok) =>
        orders[last.order_id].reserved_until =
            Some(now + (IF PaymentMethodOf(last) = "cash"
                        THEN get_bot_setting(settings, DefaultTimeoutHours)
                        ELSE BitcoinTimeoutHours))

\* C8: a successful deduct takes each line quantity from the item's
\* stock_quantity, takes it from reserved_quantity with a floor at zero, and
\* clears the order's reserved_until
C8_DeductSuccess ==
    (OnOrder("deduct") /\ last.ok) =>
        /\ SameCatalog
        /\ \A n \in DOMAIN goods :
               /\ goods[n].stock_quantity =
                      last.pre_goods[n].stock_quantity - Requested(LinesOf(last.order_id), n)
               /\ goods[n].reserved_quantity =
                      Floor0(last.pre_goods[n].reserved_quantity
                                 - Requested(LinesOf(last.order_id), n))
        /\ orders[last.order_id].reserved_until = None

\* a successful deduct of a reserved order whose item keeps a further hold
C8_Witness ==
    /\ OnOrder("deduct") /\ last.ok
    /\ last.pre_orders[last.order_id].reserved_until # None
    /\ \E k \in 1..Len(LinesOf(last.order_id)) :
           goods[LinesOf(last.order_id)[k].item_name].reserved_quantity > 0

\* C9: a deduct that would take some line's item below zero stock fails and
\* leaves every item and the order's reserved_until as before the call
C9_DeductAllOrNothing ==
    (/\ OnOrder("deduct")
     /\ \E k \in 1..Len(LinesOf(last.order_id)) :
            LET l == LinesOf(last.order_id)[k]
            IN  /\ l.item_name \in DOMAIN last.pre_goods
                /\ last.pre_goods[l.item_name].stock_quantity < l.quantity)
    => (~last.ok /\ goods = last.pre_goods /\ orders = last.pre_orders)

\* a deduct of two lines that failed on the second after the first had stock,
\* for an order that still had its deadline
C9_Witness ==
    /\ OnOrder("deduct") /\ ~last.ok /\ last.msg = "Stock would go negative"
    /\ Len(LinesOf(last.order_id)) = 2
    /\ last.failed_item = LinesOf(last.order_id)[2].item_name
    /\ last.pre_goods[LinesOf(last.order_id)[1].item_name].stock_quantity
           >= LinesOf(last.order_id)[1].quantity
    /\ last.pre_orders[last.order_id].reserved_until # None

\* C10: restock succeeds exactly when the item exists; it then adds the
\* quantity to that item's stock_quantity and changes nothing else, and a
\* failed restock changes nothing
C10_Restock ==
    last.op = "restock" =>
        /\ last.ok <=> last.item_name \in DOMAIN last.pre_goods
        /\ last.ok =>
               goods = [last.pre_goods EXCEPT
                            ![last.item_name].stock_quantity = @ + last.quantity]
        /\ ~last.ok => goods = last.pre_goods
        /\ orders = last.pre_orders

\* a restock of an item that has stock and a hold, with an order in the book
C10_Witness ==
    /\ last.op = "restock" /\ last.ok
    /\ last.pre_goods[last.item_name].stock_quantity > 0
    /\ last.pre_goods[last.item_name].reserved_quantity > 0
    /\ DOMAIN orders # {}

\* the reasons the engine gives when a row it was asked about is absent
NotFoundReasons == {"Order not found", "Item not found"}

Unchanged == goods = last.pre_goods /\ orders = last.pre_orders

\* C19 as worded: reserve, release and deduct on a non-existent order, and
\* reserve or restock naming a non-existent item, fail with a 'not found'
\* reason and leave every item and every order unchanged
C19_Original ==
    (\/ /\ last.op \in {"reserve", "release", "deduct"}
        /\ last.order_id \notin DOMAIN last.pre_orders
     \/ /\ last.op = "reserve"
        /\ \E k \in 1..Len(last.items) : Missing(last.pre_goods, last.items[k])
     \/ /\ last.op = "restock" /\ last.item_name \notin DOMAIN last.pre_goods)
    => (~last.ok /\ last.msg \in NotFoundReasons /\ Unchanged)

\* C19: reserve, release and deduct on a non-existent order, restock of a
\* non-existent item, and reserve of an existing order whose first line that
\* cannot be held names a non-existent item, fail with a 'not found' reason
\* and leave every item and every order unchanged; a reserve that names a
\* non-existent item after a short line fails as well and changes nothing
C19_NotFound ==
    /\ (/\ last.op \in {"reserve", "release", "deduct"}
        /\ last.order_id \notin DOMAIN last.pre_orders)
       => (~last.ok /\ last.msg = "Order not found" /\ Unchanged)
    /\ (last.op = "restock" /\ last.item_name \notin DOMAIN last.pre_goods)
       => (~last.ok /\ last.msg = "Item not found" /\ Unchanged)
    /\ (OnOrder("reserve")
        /\ \E k \in 1..Len(last.items) : Missing(last.pre_goods, last.items[k]))
       => /\ ~last.ok /\ Unchanged
          /\ (\E k \in 1..Len(last.items) :
                  /\ Missing(last.pre_goods, last.items[k])
                  /\ \A j \in 1..(k - 1) : ~Short(last.pre_goods, last.items[j]))
             => last.msg = "Item not found"

\* a restock that named an item deleted from a catalog that has an order
C19_Witness ==
    /\ last.op = "restock" /\ last.item_name \notin DOMAIN last.pre_goods
    /\ ~last.ok /\ last.msg = "Item not found"
    /\ DOMAIN orders # {}

\* ------------------------------------------------ the address pool claims
PoolAddresses(p) == {p[i].address : i \in DOMAIN p}

UsedAddresses(p) == {p[i].address : i \in {j \in DOMAIN p : p[j].is_used}}

UnusedAddresses(p) == {p[i].address : i \in {j \in DOMAIN p : ~p[j].is_used}}

Listed(addresses) == {addresses[k] : k \in DOMAIN addresses}

\* C12: markUsed on an address that has no row, or whose row is already
\* used, returns failure and changes neither the rows nor the file; a
\* markUsed that succeeds leaves no line of the file equal to the address
C12_MarkUsedOnce ==
    plast.op = "mark" =>
        /\ (\/ plast.address \notin PoolAddresses(plast.pre_pool)
            \/ plast.address \in UsedAddresses(plast.pre_pool))
           => (~plast.ok /\ pool = plast.pre_pool /\ btc_file = plast.pre_file)
        /\ plast.ok => plast.address \notin Listed(btc_file)

\* C13: no two orders carry the same pool address
C13_NoDoubleAssignment ==
    \A o1 \in DOMAIN orders, o2 \in DOMAIN orders :
        (o1 # o2 /\ orders[o1].bitcoin_address # None)
            => orders[o1].bitcoin_address # orders[o2].bitcoin_address

\* C14: a row that is used keeps its place and its address and stays used
\* in the next state, no unused row with its address appears, and allocate
\* does not return its address
C14_UsedStaysUsed ==
    [][\A i \in DOMAIN pool :
           pool[i].is_used =>
               /\ i \in DOMAIN pool'
               /\ pool'[i].address = pool[i].address
               /\ pool'[i].is_used
               /\ pool[i].address \notin UnusedAddresses(pool')
               /\ plast'.op = "allocate" => plast'.returned # Some(pool[i].address)]_vars

\* an import of the file that listed an address whose row was used
C14_Witness ==
    /\ plast.op = "load"
    /\ Listed(plast.addresses) \cap UsedAddresses(plast.pre_pool) # {}

\* C15: allocate returns none exactly when no row is unused, otherwise an
\* address of an unused row, and changes neither the rows nor the file
C15_Allocate ==
    plast.op = "allocate" =>
        /\ plast.returned = None <=> UnusedAddresses(plast.pre_pool) = {}
        /\ plast.returned # None => plast.returned[1] \in UnusedAddresses(plast.pre_pool)
        /\ pool = plast.pre_pool
        /\ btc_file = plast.pre_file

\* allocate returned an address from a pool that also has a used row
C15_Witness ==
    /\ plast.op = "allocate" /\ plast.returned # None
    /\ UsedAddresses(plast.pre_pool) # {}

\* what an import of the listed addresses leaves: the rows of before
\* untouched, one new unused row for each listed address that had none, the
\* number of these returned, and no address with two rows
C16_Imported ==
    plast.op \in {"load", "bulk"} =>
        LET new == Listed(plast.addresses) \ PoolAddresses(plast.pre_pool)
            n == Len(plast.pre_pool)
        IN  /\ plast.count = Cardinality(new)
            /\ Len(pool) = n + Cardinality(new)
            /\ SubSeq(pool, 1, n) = plast.pre_pool
            /\ \A i \in (n + 1)..Len(pool) :
                   pool[i].address \in new /\ pool[i] = BitcoinAddress(pool[i].address)
            /\ \A i \in DOMAIN pool, j \in DOMAIN pool :
                   pool[i].address = pool[j].address => i = j

\* C16: an import of the file or of a list adds as unused exactly the listed
\* addresses that had no row, returns their number, gives no address a
\* second row and leaves the rows of before as they were; the same import
\* made again adds nothing and returns 0
C16_Replenish ==
    [][/\ C16_Imported'
       /\ (/\ plast.op \in {"load", "bulk"}
           /\ plast'.op = plast.op
           /\ plast'.addresses = plast.addresses)
          => (plast'.count = 0 /\ pool' = pool)]_vars

\* a list of a used address and a new one, imported: one row added
C16_Witness ==
    /\ plast.op = "bulk" /\ plast.count = 1 /\ Len(plast.addresses) = 2
    /\ Listed(plast.addresses) \cap UsedAddresses(plast.pre_pool) # {}
    /\ Listed(plast.addresses) \cap CommentLines = {}

\* ---------------------------------------------------- the order code claim
\* C17: a code that generate_unique_order_code returns has six uppercase
\* letters and is the code of no order; no call looks at more than 100
\* candidates; a call raises only after 100 candidates that were all taken,
\* and then returns no code
C17_UniqueOrderCode ==
    /\ gen.pc = "returned" =>
           /\ Len(gen.code[1]) = 6
           /\ \A k \in 1..6 : gen.code[1][k] \in Uppercase
           /\ gen.code[1] \notin codes
    /\ gen.candidates <= 100
    /\ gen.pc = "raised" => (gen.candidates = 100 /\ gen.attempts = 100 /\ gen.code = None)
    /\ (gen.pc = "loop" /\ gen.candidates = 100) => ~ENABLED (\E d \in Draws : GenerateStep(d))

\* the call gave up with an order in the book
C17_Witness == gen.pc = "raised" /\ codes # {}

\* the call returned a fresh code after candidates that were taken
C17_WitnessReturned == gen.pc = "returned" /\ gen.attempts > 0

\* ------------------------------------------------ the caller's session claim
\* the rows after a deduction of the lines of an order
Deducted(g, items) ==
    [n \in DOMAIN g |->
        [stock_quantity |-> g[n].stock_quantity - Requested(items, n),
         reserved_quantity |-> Floor0(g[n].reserved_quantity - Requested(items, n))]]

DeliverCommit(o) ==
    /\ sess # None /\ sess' = None
    /\ sess[1].flow = "deliver" /\ sess[1].order_id = o
    /\ last'.op = "commit"

\* C18: a reserve, release, deduct or restock handed the caller's session
\* changes no committed row; the rows of the session become the committed
\* rows at the caller's commit and are dropped at the caller's rollback; an
\* order becomes delivered in the committed rows exactly at the commit of its
\* deliver flow, in the same step as the deduction of its lines
C18_CallerSession ==
    [][/\ (sess # None \/ sess' # None) /\ last'.op \in {"reserve", "release", "deduct", "restock"}
          => (goods' = goods /\ orders' = orders)
       /\ sess' # None => (goods' = goods /\ orders' = orders)
       /\ (sess # None /\ sess' = None)
          => \/ /\ last'.op = "commit"
                /\ goods' = sess[1].s.goods /\ orders' = sess[1].s.orders
             \/ /\ last'.op = "rollback"
                /\ goods' = goods /\ orders' = orders
       /\ \A o \in DOMAIN orders :
              /\ (orders'[o].order_status = "delivered" /\ orders[o].order_status # "delivered")
                 <=> DeliverCommit(o)
              /\ DeliverCommit(o) => goods' = Deducted(goods, orders[o].items)]_vars

\* a deliver flow was committed: the order is delivered and its lines are
\* off the stock
C18_Witness ==
    /\ last.op = "commit" /\ last.msg = "deliver"
    /\ orders[last.order_id].order_status = "delivered"
    /\ last.pre_orders[last.order_id].order_status = "reserved"
    /\ goods # last.pre_goods

\* a deliver flow was dropped before its commit: nothing of it is committed
C18_WitnessRollback ==
    /\ last.op = "rollback" /\ last.msg = "deliver"
    /\ orders[last.order_id].order_status = "reserved"

\* ------------------------------------------------------- the sweeper claim
\* the orders that are reserved with a deadline before now
Overdue ==
    {o \in DOMAIN orders :
        /\ orders[o].order_status = "reserved"
        /\ orders[o].reserved_until # None
        /\ orders[o].reserved_until[1] < now}

\* what the lines of a set of orders ask of one item
RECURSIVE HeldBy(_, _)
HeldBy(os, n) ==
    IF os = {} THEN 0
    ELSE LET o == CHOOSE x \in os : TRUE
         IN  Requested(orders[o].items, n) + HeldBy(os \ {o}, n)

\* the bonus applied to the orders of a set that are of one buyer
RECURSIVE BonusOf(_, _)
BonusOf(os, b) ==
    IF os = {} THEN 0
    ELSE LET o == CHOOSE x \in os : TRUE
         IN  (IF orders[o].buyer_id = b THEN orders[o].bonus_applied ELSE 0)
             + BonusOf(os \ {o}, b)

\* C11: after a cycle of the sweeper, every order that was reserved with a
\* deadline before now is expired with no deadline, every item's
\* reserved_quantity is lower by the quantities of the lines of these orders
\* (not below zero) with its stock as before, every buyer's bonus balance is
\* higher by the bonus applied to these orders, and no other order changed
C11_SweeperCycle ==
    [][last'.op = "sweep" =>
          /\ \A o \in Overdue :
                 /\ orders'[o].order_status = "expired"
                 /\ orders'[o].reserved_until = None
          /\ \A o \in DOMAIN orders \ Overdue : orders'[o] = orders[o]
          /\ DOMAIN orders' = DOMAIN orders
          /\ \A n \in DOMAIN goods :
                 /\ goods'[n].reserved_quantity
                        = Floor0(goods[n].reserved_quantity - HeldBy(Overdue, n))
                 /\ goods'[n].stock_quantity = goods[n].stock_quantity
          /\ \A b \in Buyers :
                 bonus_balance'[b] = bonus_balance[b] + BonusOf(Overdue, b)]_vars

\* a cycle that found an overdue order paid with a bonus beside an order
\* whose deadline is the present hour, and expired the first only
C11_Witness ==
    /\ last.op = "sweep" /\ last.quantity = 1
    /\ \E o \in DOMAIN orders :
           /\ orders[o].order_status = "expired"
           /\ last.pre_orders[o].order_status = "reserved"
           /\ orders[o].bonus_applied > 0
    /\ \E o \in DOMAIN orders :
           /\ orders[o].order_status = "reserved"
           /\ orders[o].reserved_until = Some(now)

\* ------------------------------------------------- the terminal status claim
TerminalStatuses == {"delivered", "expired", "cancelled", "canceled"}

AdminCommands == {"complete", "cancel", "confirm", "add_item", "deduct", "commit"}

\* C20: an order that is delivered, expired or cancelled keeps its status in
\* every step, and no command on that order changes the stock_quantity or
\* reserved_quantity of any item
C20_Terminal ==
    [][\A o \in DOMAIN orders :
           orders[o].order_status \in TerminalStatuses =>
               /\ orders'[o].order_status = orders[o].order_status
               /\ (last'.op \in AdminCommands /\ last'.order_id = o) => goods' = goods]_vars

\* ------------------------------------------------- the hold within the stock
\* C22: from a catalog where every item has 0 <= reserved_quantity <=
\* stock_quantity, every state reached by reserve, release, deduct and
\* restock calls with positive quantities has reserved_quantity <=
\* stock_quantity for every item
C22_ReservedWithinStock ==
    \A n \in DOMAIN goods : goods[n].reserved_quantity <= goods[n].stock_quantity

\* a deduct for an order without a hold, of an item whose whole stock was
\* held by another order, went through
C22_Witness ==
    /\ OnOrder("deduct") /\ last.ok
    /\ last.pre_orders[last.order_id].order_status = "pending"
    /\ \E n \in DOMAIN last.pre_goods :
           /\ Requested(LinesOf(last.order_id), n) > 0
           /\ last.pre_goods[n].reserved_quantity > 0
           /\ last.pre_goods[n].reserved_quantity = last.pre_goods[n].stock_quantity

\* --------------------------------------------- the cleaner task step by step
\* the step that ends a cycle, by its commit or by an exception
CycleEnds == cleaner.pc = "orders" /\ cleaner'.pc = "sleep"

\* C21: an order handled in a cycle is expired in its own transaction: when
\* the cycle ends, by its commit or by an error at a later order, every order
\* it had handled is expired in the database, and only the order of the
\* error is left unhandled
C21_OwnTransaction ==
    [][CycleEnds =>
          /\ \A k \in DOMAIN cleaner.processed :
                 orders'[cleaner.processed[k]].order_status = "expired"
          /\ Len(cleaner.selected) <= 1]_vars

\* the orders a step sets to expired
Expiring == {o \in DOMAIN orders : /\ orders'[o].order_status = "expired"
                                   /\ orders[o].order_status # "expired"}

\* C25: an order becomes expired only by the commit of a cleaner cycle that
\* handled it, and only when it is reserved with its deadline in the past:
\* a pending or confirmed order, or one whose deadline has not passed, is
\* never expired
C25_ExpiredOnlyOverdue ==
    [][\A o \in Expiring :
          /\ CycleEnds
          /\ \E k \in DOMAIN cleaner.processed : cleaner.processed[k] = o
          /\ orders[o].order_status = "reserved"
          /\ orders[o].reserved_until # None
          /\ orders[o].reserved_until[1] < now]_vars

\* the handled orders that the admin delivered or cancelled after the query
\* of the cycle
Overtaken ==
    {o \in DOMAIN orders :
        /\ \E k \in DOMAIN cleaner.processed : cleaner.processed[k] = o
        /\ orders[o].order_status \in {"delivered", "canceled"}}

\* C28: when the admin's deliver or cancel of an order commits between the
\* query of a cycle and the handling of the order, the cycle leaves the
\* order's status as the admin set it and releases nothing for it
C28_Overtaken ==
    [][CycleEnds =>
          /\ \A o \in Overtaken : orders'[o].order_status = orders[o].order_status
          /\ (Overtaken # {} /\ Cardinality(Overtaken) = Len(cleaner.processed))
                 => goods' = goods]_vars

\* ------------------------------------------------ transactions side by side
\* the workers whose operation committed
Committed == {w \in Workers : txs.tx[w].pc = "done" /\ txs.tx[w].ok}

RECURSIVE RequestedBy(_, _)
RequestedBy(ws, n) ==
    IF ws = {} THEN 0
    ELSE LET w == CHOOSE x \in ws : TRUE
         IN  Requested(txs.tx[w].items, n) + RequestedBy(ws \ {w}, n)

OnlyReserves == \A w \in Workers : txs.tx[w].op \in {"none", "reserve"}

\* C23: while reserve transactions of several workers run side by side, the
\* committed reserved_quantity of every item is its value before them plus
\* the quantities of exactly the reservations that committed, and never
\* above stock_quantity
C23_NoLostHold ==
    (OnlyReserves /\ ~AllIdle) =>
        \A n \in DOMAIN goods :
            /\ goods[n].reserved_quantity =
                   txs.base[n].reserved_quantity + RequestedBy(Committed, n)
            /\ goods[n].reserved_quantity <= goods[n].stock_quantity

\* two reservations of the same item ran side by side: one committed, the
\* other found the stock taken
C23_Witness ==
    /\ OnlyReserves
    /\ \E w \in Workers, v \in Workers :
           /\ txs.tx[w].pc = "done" /\ txs.tx[w].ok
           /\ txs.tx[v].pc = "done" /\ ~txs.tx[v].ok
           /\ \E n \in DOMAIN goods :
                  /\ Requested(txs.tx[w].items, n) > 0
                  /\ Requested(txs.tx[v].items, n) > 0

\* both reservations committed on the same item
C23_WitnessBoth ==
    /\ OnlyReserves
    /\ Committed = Workers
    /\ \E n \in DOMAIN goods : \A w \in Workers : Requested(txs.tx[w].items, n) > 0

\* C24: two operations on different orders never wait for each other's row
\* locks in a cycle
C24_NoWaitCycle ==
    ~ \E w \in Workers, v \in Workers :
          waits_for(txs.tx, w, v) /\ waits_for(txs.tx, v, w)

\* C26: an exception of a cycle does not end the cleaner's loop: a cycle
\* that raises is followed by a sleep of 120 seconds, twice the normal one,
\* a cycle that returns by a sleep of 60 seconds, and every sleep by another
\* cycle
C26_LoopGoesOn ==
    /\ [][/\ (cleaner.pc = "orders" /\ cleaner'.pc # "orders") =>
                 /\ cleaner'.pc = "sleep"
                 /\ cleaner'.wait = IF cleaner.selected # <<>> THEN 120 ELSE 60
                 /\ ErrorWait = 2 * NormalWait
          /\ (cleaner.pc = "sleep" /\ cleaner'.pc # "sleep") => cleaner'.pc = "cycle"]_vars
    /\ (cleaner.pc = "sleep") ~> (cleaner.pc = "orders")

\* after a cycle that raised and the long sleep the next cycle is due
C26_Witness == cleaner.pc = "cycle" /\ cleaner.wait = 120 /\ cleaner.raised = 0

\* after a cycle that returned and the normal sleep the next cycle is due
C26_WitnessNormal == cleaner.pc = "cycle" /\ cleaner.wait = 60

\* C27: with the cleaner scheduled fairly, every reserved order whose
\* deadline has passed is in the end expired with its hold given back,
\* unless the handling of that very order raises: an exception at another
\* order does not keep it waiting for ever
C27_EventuallyExpired ==
    \A o \in OrderIds :
        (o \in DOMAIN orders /\ o \in expired_orders(orders, now))
            ~> ((o \in DOMAIN orders /\ orders[o].order_status = "expired")
                   \/ cleaner.raised = o)

\* ------------------------------------------------------ orders without a hold
\* an order that was never reserved
NeverReserved(o) ==
    orders[o].order_status = "pending" /\ orders[o].reserved_until = None

\* the order a step works on: the one of the call, or of the committed flow
StepOn(o) ==
    \/ last'.order_id = o
    \/ sess # None /\ sess[1].order_id = o

C30_ReserveKeepsStatus ==
    [][\A o \in DOMAIN orders :
          (/\ last'.op = "add_item" /\ last'.order_id = o /\ last'.ok
           /\ orders[o].order_status \in
                  {"confirmed", "delivered", "expired", "cancelled", "canceled"})
              => /\ orders'[o].order_status = orders[o].order_status
                 /\ orders'[o].reserved_until = orders[o].reserved_until]_vars

\* --------------------------------------------------------- unexpected faults
\* C31: an order becomes canceled only in a step of the cancel command whose
\* release reported success
C31_CancelWithRelease ==
    [][\A o \in DOMAIN orders :
          (orders'[o].order_status = "canceled" /\ orders[o].order_status # "canceled")
              => (last'.op = "cancel" /\ last'.order_id = o /\ last'.ok)]_vars

\* the messages of the except paths
FaultMessages == {"Error releasing reservation", "Error deducting inventory"}

\* the stock a cleaner cycle commits when the order of the fault is left out
WithoutFaulty(order_id) ==
    cleanup_orders(Session, [s |-> Session, balance |-> bonus_balance, count |-> 0],
                   expired_orders(orders, now) \ {order_id}).s.goods

\* C32: when an operation fails by a fault after it changed some items, the
\* step commits none of those changes, in a session of its own or of the
\* cleaner, the cancel or the deliver command
C32_NoPartialCommit ==
    [][(~last'.ok /\ last'.msg \in FaultMessages) =>
          goods' = IF last'.op = "sweep" THEN WithoutFaulty(last'.order_id) ELSE goods]_vars

\* ------------------------------------------------------------ the file watcher
\* C33: an event reloads only when it is a modification of the watched file
\* itself, not of a directory or another file, and at least debounce_seconds
\* (2) after the reload before it; an event for the file that comes sooner
\* is dropped
C33_Debounce ==
    /\ debounce_seconds = 2
    /\ watcher.event.reloaded =>
           /\ watcher.event.src_path = FilePath
           /\ ~watcher.event.is_directory
           /\ watcher.event.at - watcher.event.last_reload_time >= 2
    /\ (watcher.event.at - watcher.event.last_reload_time < 2) => ~watcher.event.reloaded

\* a modification of the file one second after a reload was dropped
C33_Witness ==
    /\ watcher.event.src_path = FilePath
    /\ ~watcher.event.is_directory
    /\ watcher.event.last_reload_time >= debounce_seconds
    /\ watcher.event.at - watcher.event.last_reload_time = 1
    /\ ~watcher.event.reloaded

\* a second reload came two seconds after the first
C33_WitnessReload ==
    /\ watcher.event.reloaded
    /\ watcher.event.last_reload_time >= debounce_seconds
    /\ watcher.event.at - watcher.event.last_reload_time = 2

\* C34: every address written to the file is in the end a row of the pool,
\* with no further write to the file
C34_WrittenIsLoaded ==
    \A a \in Addresses :
        (a \in Listed(btc_file)) ~> (a \in PoolAddresses(pool))

\* C35: under mark-used, add and bulk import alone, no line of the file is an
\* address whose pool row is marked used
C35_NoUsedInFile ==
    \A i \in DOMAIN pool :
        pool[i].is_used => pool[i].address \notin Listed(btc_file)

\* C36: a call of reserve, release, deduct or restock that commits has
\* written, in its transaction, one InventoryLog row of its type for every
\* line it has applied, for that item and order, and has changed no item
\* without a row; a call that fails commits no change and no row; and no call
\* touches a row the session already holds
ChangeType(op) == IF op = "restock" THEN "add" ELSE op

AuditedOps == {"reserve", "release", "deduct", "restock"}

\* the lines the call has gone through, on the rows it started from
AppliedLines(c) ==
    LET lines == IF c.op = "restock" THEN <<[item_name |-> c.item_name, quantity |-> c.quantity]>>
                 ELSE IF c.op = "reserve" THEN c.items
                 ELSE c.pre_orders[c.order_id].items
        known(l) == l.item_name \in DOMAIN c.pre_goods
    IN  SelectSeq(lines, known)

AuditKey(item_name, change_type, order_id) ==
    [item_name |-> item_name, change_type |-> change_type, order_id |-> order_id]

Earlier == <<InventoryLog("A", "manual", 1, 0)>>

KeepsEarlier(r) ==
    \/ r.s = Session
    \/ Len(r.s.log) >= Len(Earlier) /\ SubSeq(r.s.log, 1, Len(Earlier)) = Earlier

C36_AuditEntries ==
    /\ last.op \in AuditedOps /\ last.ok =>
           /\ [k \in DOMAIN last.logged |->
                  AuditKey(last.logged[k].item_name, last.logged[k].change_type,
                           last.logged[k].order_id)]
              = [k \in DOMAIN AppliedLines(last) |->
                  AuditKey(AppliedLines(last)[k].item_name, ChangeType(last.op),
                           last.order_id)]
           /\ \A n \in DOMAIN goods \cap DOMAIN last.pre_goods :
                  goods[n] # last.pre_goods[n] =>
                      \E k \in DOMAIN last.logged : last.logged[k].item_name = n
    /\ last.op \in AuditedOps /\ ~last.ok =>
           /\ goods = last.pre_goods
           /\ orders = last.pre_orders
           /\ last.logged = <<>>
    /\ LET s == [Session EXCEPT !.log = Earlier]
       IN  /\ \A o \in OrderIds : \A il \in Requests(o) :
                  KeepsEarlier(reserve_inventory(Session, s, o, il, "None", settings, now))
           /\ \A o \in OrderIds : KeepsEarlier(release_reservation(Session, s, o))
           /\ \A o \in OrderIds : KeepsEarlier(deduct_inventory(Session, s, o))
           /\ \A n \in ItemNames, q \in Quantities :
                  KeepsEarlier(add_inventory(Session, s, n, q))

\* a release of a two-line order has committed
C36_Witness ==
    last.op = "release" /\ last.ok /\ Len(last.logged) = 2 /\ goods # last.pre_goods

\* a reserve has failed on its second line, after the row of the first
C36_WitnessRolledBack ==
    /\ last.op = "reserve" /\ ~last.ok /\ Len(last.items) = 2
    /\ last.failed_item = last.items[2].item_name

\* C37: the hold of every item is the sum of the lines of that item over
\* the orders in status reserved or confirmed
RECURSIVE LineSum(_, _)
LineSum(items, n) ==
    IF items = <<>> THEN 0
    ELSE (IF Head(items).item_name = n THEN Head(items).quantity ELSE 0)
         + LineSum(Tail(items), n)

RECURSIVE HeldSum(_, _)
HeldSum(os, n) ==
    IF os = <<>> THEN 0
    ELSE (IF Head(os).order_status \in {"reserved", "confirmed"}
          THEN LineSum(Head(os).items, n) ELSE 0)
         + HeldSum(Tail(os), n)

C37_ReservedIsHeldSum ==
    \A n \in DOMAIN goods : goods[n].reserved_quantity = HeldSum(orders, n)

\* C38: under complete, deliver and cancel the lines of an order are taken
\* off the stock at most once.  These commands give the status completed or
\* delivered only in the step that commits the deduction of the order, so a
\* step that commits a deduction for an order in one of these statuses takes
\* its lines off a second time
DeductionCommitted(o) ==
    /\ \/ last'.op = "complete" /\ last'.order_id = o /\ last'.ok
       \/ DeliverCommit(o)
    /\ goods' = Deducted(goods, orders[o].items)
    /\ goods' # goods

C38_DeductedOnce ==
    [][\A o \in DOMAIN orders :
          DeductionCommitted(o) => orders[o].order_status \notin {"delivered", "completed"}]_vars

\* C39: under the sweeper and the cancel command the bonus applied to an
\* order is given back at most once.  The sweeper gives the status expired
\* and the cancel command the status canceled in the step that gives the
\* bonus back, so a step that gives back the bonus of an order in one of
\* these statuses gives it back a second time
BonusRefunded(o) ==
    /\ orders[o].bonus_applied > 0
    /\ bonus_balance'[orders[o].buyer_id] > bonus_balance[orders[o].buyer_id]
    /\ \/ last'.op = "cancel" /\ last'.order_id = o
       \/ /\ last'.op = "sweep"
          /\ orders'[o].order_status = "expired"
          /\ orders[o].order_status # "expired"

C39_RefundedOnce ==
    [][\A o \in DOMAIN orders :
          BonusRefunded(o) => orders[o].order_status \notin {"expired", "canceled"}]_vars

====
